---------------------------- MODULE Spec2Model ----------------------------
(***************************************************************************)
(* decoxml: a decorator-based mapper between XML element trees and typed   *)
(* object graphs.  The module models the metadata store, the deserializer  *)
(* (parser.ts: parseXMLElement and its schema merges) and the serializer   *)
(* (base.ts: XMLElement.toXmlObject and its schema merges).                *)
(***************************************************************************)
EXTENDS Integers, Sequences, FiniteSets, TLC

(***************************************************************************)
(* Bounds of the explored inputs.                                          *)
(***************************************************************************)
MaxAttrs == 3
MaxKids == 2

(***************************************************************************)
(* JavaScript values.  Nil stands for undefined/null.  A property value is *)
(* a record of one shape, so that any two of them can be compared.         *)
(***************************************************************************)
Nil == "<nil>"
Unlimited == -1

VNil == [k |-> "nil", s |-> "", n |-> 0, ids |-> <<>>]
VStr(s) == [k |-> "str", s |-> s, n |-> 0, ids |-> <<>>]
VNum(n) == [k |-> "num", s |-> "", n |-> n, ids |-> <<>>]
VNaN == [k |-> "nan", s |-> "", n |-> 0, ids |-> <<>>]
VBool(b) == [k |-> "bool", s |-> IF b THEN "true" ELSE "false", n |-> 0, ids |-> <<>>]
VObj(id) == [k |-> "obj", s |-> "", n |-> 0, ids |-> <<id>>]
VList(ids) == [k |-> "list", s |-> "", n |-> 0, ids |-> ids]

isNil(v) == v.k = "nil"

isInvalidStr(v) == v.k # "str" \/ v.s = ""

(***************************************************************************)
(* String helpers, computed character by character.                        *)
(***************************************************************************)
Digits == <<"0", "1", "2", "3", "4", "5", "6", "7", "8", "9">>

IsDigit(c) == \E i \in 1..10 : Digits[i] = c

DigitVal(c) == (CHOOSE i \in 1..10 : Digits[i] = c) - 1

IsSpace(c) == c = " "

CharAt(s, i) == SubSeq(s, i, i)

RECURSIVE TrimLeft(_)
TrimLeft(s) ==
  IF Len(s) > 0 /\ IsSpace(CharAt(s, 1)) THEN TrimLeft(SubSeq(s, 2, Len(s))) ELSE s

RECURSIVE TrimRight(_)
TrimRight(s) ==
  IF Len(s) > 0 /\ IsSpace(CharAt(s, Len(s)))
  THEN TrimRight(SubSeq(s, 1, Len(s) - 1))
  ELSE s

Trim(s) == TrimRight(TrimLeft(s))

\* Number of leading decimal digits of s.
RECURSIVE DigitPrefix(_)
DigitPrefix(s) ==
  IF Len(s) > 0 /\ IsDigit(CharAt(s, 1))
  THEN 1 + DigitPrefix(SubSeq(s, 2, Len(s)))
  ELSE 0

RECURSIVE DigitsValue(_, _)
DigitsValue(s, acc) ==
  IF Len(s) = 0 THEN acc
  ELSE DigitsValue(SubSeq(s, 2, Len(s)), 10 * acc + DigitVal(CharAt(s, 1)))

\* parseFloat on the integer literals of the model: leading blanks are
\* skipped, an optional sign and the longest digit prefix are read, the rest
\* is ignored; no digit gives NaN.
parseFloat(str) ==
  LET t == TrimLeft(str)
      neg == Len(t) > 0 /\ CharAt(t, 1) = "-"
      u == IF Len(t) > 0 /\ (CharAt(t, 1) = "-" \/ CharAt(t, 1) = "+")
           THEN SubSeq(t, 2, Len(t)) ELSE t
      d == DigitPrefix(u)
  IN IF d = 0 THEN VNaN
     ELSE LET m == DigitsValue(SubSeq(u, 1, d), 0)
          IN VNum(IF neg THEN 0 - m ELSE m)

RECURSIVE NatToString(_)
NatToString(n) ==
  IF n < 10 THEN Digits[n + 1] ELSE NatToString(n \div 10) \o Digits[(n % 10) + 1]

\* value.toString() of a property value.
toString(v) ==
  CASE v.k = "str" -> v.s
    [] v.k = "bool" -> v.s
    [] v.k = "nan" -> "NaN"
    [] v.k = "num" -> IF v.n < 0 THEN "-" \o NatToString(0 - v.n) ELSE NatToString(v.n)
    [] OTHER -> "[object Object]"

\* Index of the first occurrence of pat in s at or after i, 0 when none.
RECURSIVE IndexFrom(_, _, _)
IndexFrom(s, pat, i) ==
  IF i + Len(pat) - 1 > Len(s) THEN 0
  ELSE IF SubSeq(s, i, i + Len(pat) - 1) = pat THEN i
  ELSE IndexFrom(s, pat, i + 1)

\* s.replace(pat, '') : the first occurrence only.
RemoveFirst(s, pat) ==
  LET i == IF Len(pat) = 0 THEN 0 ELSE IndexFrom(s, pat, 1)
  IN IF i = 0 THEN s ELSE SubSeq(s, 1, i - 1) \o SubSeq(s, i + Len(pat), Len(s))

\* s.split(':')
RECURSIVE split(_)
split(s) ==
  LET i == IndexFrom(s, ":", 1)
  IN IF i = 0 THEN <<s>>
     ELSE <<SubSeq(s, 1, i - 1)>> \o split(SubSeq(s, i + 1, Len(s)))

(***************************************************************************)
(* The metadata store.  Each class owns one fragment (XMLMetadata); the    *)
(* decorators fill it.  The classes are those of the README examples, with *)
(* Father/Son extended so that Son rebinds properties of Father under      *)
(* another attribute name and another child class.                         *)
(***************************************************************************)
TString == [k |-> "string", vals |-> {}]
TBoolean == [k |-> "boolean", vals |-> {}]
TNumber == [k |-> "number", vals |-> {}]
MyEnum == [k |-> "enum", vals |-> {"foo", "bar"}]

\* getAttrDef: the entry a property decorator creates when none exists.
getAttrDef(prop) ==
  [prop |-> prop, defined |-> FALSE, name |-> Nil, typ |-> TString,
   required |-> FALSE, converter |-> Nil, validator |-> <<>>,
   ns |-> Nil, nsURI |-> Nil]

\* @NamedAttr(name, {typ, required}) on top of @Validators(validator).
NamedAttr(prop, name, typ, required, validator) ==
  [getAttrDef(prop) EXCEPT !.defined = TRUE, !.name = name, !.typ = typ,
                           !.required = required, !.validator = validator]

\* @Attr(option) is NamedAttr(null, option).
Attr(prop, typ, required, validator) == NamedAttr(prop, Nil, typ, required, validator)

\* @Validators(validator) on a property with no @Attr: getAttrDef creates
\* the entry and nothing marks it defined.
Validators(prop, validator) == [getAttrDef(prop) EXCEPT !.validator = validator]

\* @Child(clazz, {minOccur, maxOccur})
Child(prop, clazz, minOccur, maxOccur) ==
  [prop |-> prop, clazz |-> clazz, minOccur |-> minOccur, maxOccur |-> maxOccur]

NoText == [prop |-> Nil, required |-> FALSE]

\* @Text({required})
Text(prop, required) == [prop |-> prop, required |-> required]

\* getMetadata's default for a prototype no decorator touched.
EmptyMetadata ==
  [defined |-> FALSE, name |-> Nil, tag |-> Nil, ns |-> Nil, nsURI |-> Nil,
   attrs |-> <<>>, children |-> <<>>, text |-> NoText, attrNameGen |-> Nil,
   readyFunc |-> Nil, rawOutput |-> FALSE]

\* The Tag decorator marks the fragment it is applied to as declaring a
\* tag; requireMetadataAndClsName reads the mark.
markDefined(md) == [md EXCEPT !.defined = TRUE]

\* @NamedTag(name, {rawOutput}) applied to a fragment.
NamedTag(md, cls, name, rawOutput) ==
  [markDefined(md) EXCEPT !.name = cls, !.tag = name, !.rawOutput = rawOutput]

\* @NS(prefix, URI) applied to a class fragment.
NS(md, prefix, URI) == [md EXCEPT !.ns = prefix, !.nsURI = URI]

Classes == {"Foo", "Bar", "Baz", "Father", "Son", "Tree", "Heir", "Home", "Villa", "Note", "Pack"}

\* Object.getPrototypeOf on prototypes: the parent class.
getPrototypeOf(cls) ==
  CASE cls = "Son" -> "Father"
    [] cls = "Heir" -> "Son"
    [] cls = "Villa" -> "Home"
    [] cls = "XMLElement" -> "Object"
    [] OTHER -> "XMLElement"

\* The prototypes the merge loops visit, from the class up to XMLElement.
RECURSIVE Chain(_)
Chain(cls) == IF cls = "Object" THEN <<>> ELSE <<cls>> \o Chain(getPrototypeOf(cls))

getMetadata(cls) ==
  CASE cls = "Foo" ->
         [NamedTag(EmptyMetadata, "Foo", "Foo", FALSE) EXCEPT
            !.attrs = <<Attr("attr1", TNumber, TRUE, <<"NotTooSmall">>),
                        Attr("attr2", TNumber, TRUE, <<"NotTooBig", "NotTooSmall">>)>>,
            !.readyFunc = "validateOnReady"]
    [] cls = "Bar" ->
         [NamedTag(EmptyMetadata, "BarClass", "Bar", FALSE) EXCEPT
            !.attrs = <<Attr("barProp", TString, FALSE, <<>>)>>,
            !.text = Text("barText", TRUE),
            !.attrNameGen = "toUpperCase"]
    [] cls = "Baz" ->
         [NamedTag(EmptyMetadata, "Baz", "Baz", TRUE) EXCEPT
            !.attrs = <<NamedAttr("enumProp", "attr3", MyEnum, FALSE, <<>>)>>,
            !.text = Text("bazText", TRUE)]
    [] cls = "Father" ->
         [EmptyMetadata EXCEPT
            !.attrs = <<NamedAttr("p", "y", TString, TRUE, <<>>)>>,
            !.children = <<Child("c", "Bar", 0, 1)>>]
    [] cls = "Son" ->
         [NS(NamedTag(EmptyMetadata, "Son", "Son", FALSE), "myns", "http://foo.bar") EXCEPT
            !.attrs = <<NamedAttr("p", "x", TString, FALSE, <<>>),
                        Attr("flag", TBoolean, FALSE, <<>>)>>,
            !.children = <<Child("c", "Baz", 1, 1),
                           Child("items", "Foo", 0, Unlimited)>>]
    [] cls = "Tree" ->
         [NS(NamedTag(EmptyMetadata, "Tree", "Tree", FALSE), "t", "urn:t") EXCEPT
            !.attrs = <<Attr("flag", TBoolean, FALSE, <<>>)>>,
            !.children = <<Child("kids", "Tree", 0, 2), Child("one", "Bar", 0, 1)>>,
            !.text = Text("label", FALSE)]
    [] cls = "Heir" ->
         [EmptyMetadata EXCEPT !.attrs = <<Attr("title", TString, FALSE, <<>>)>>]
    [] cls = "Home" ->
         [NamedTag(EmptyMetadata, "Home", "Home", FALSE) EXCEPT
            !.attrs = <<Attr("id", TString, FALSE, <<>>)>>,
            !.children = <<Child("heir", "Heir", 0, 1)>>]
    [] cls = "Villa" -> NamedTag(EmptyMetadata, "Villa", "Villa", FALSE)
    [] cls = "Pack" ->
         [NamedTag(EmptyMetadata, "Pack", "Pack", FALSE) EXCEPT
            !.attrs = <<Attr("id", TString, FALSE, <<>>)>>,
            !.children = <<Child("parts", "Foo", 1, 2)>>,
            !.readyFunc = "checkId"]
    [] cls = "Note" ->
         [NamedTag(EmptyMetadata, "Note", "Note", FALSE) EXCEPT
            !.attrs = <<Attr("id", TString, FALSE, <<>>),
                        Validators("memo", <<"NotTooSmall">>)>>]
    [] OTHER -> EmptyMetadata

\* The attribute-name generators of the fixture (README: propName.toUpperCase()).
attrNameGen(gen, prop) ==
  IF gen = "toUpperCase"
  THEN CASE prop = "barProp" -> "BARPROP" [] OTHER -> prop
  ELSE prop

\* The validators of the README: they throw (FALSE) or return (TRUE).
\* A NaN compares false with everything, so it passes both.
validatorPasses(validator, v) ==
  CASE validator = "NotTooSmall" -> ~(v.k = "num" /\ v.n < 3)
    [] validator = "NotTooBig" -> ~(v.k = "num" /\ v.n > 6)
    [] OTHER -> TRUE

\* The @Ready hook of the README's Foo: throws when attr1 + attr2 > 10.
\* The hook of Pack throws when id is "0".
readyFuncPasses(readyFunc, props) ==
  CASE readyFunc = "validateOnReady" ->
         ~(props["attr1"].k = "num" /\ props["attr2"].k = "num"
           /\ props["attr1"].n + props["attr2"].n > 10)
    [] readyFunc = "checkId" -> props["id"] # VStr("0")
    [] OTHER -> TRUE

\* Every property name a fragment binds.
Props == {"attr1", "attr2", "barProp", "barText", "enumProp", "bazText",
          "p", "flag", "c", "items", "kids", "one", "label", "title", "id", "heir", "memo", "parts"}

(***************************************************************************)
(* DOM nodes (xmldom): an element has a nodeName (with its prefix), a      *)
(* namespaceURI, attribute nodes and child nodes; a text node has data.    *)
(***************************************************************************)
NoNode == [kind |-> "none"]

ElementNode(nodeName, namespaceURI, attributes, childNodes) ==
  [kind |-> "elem", nodeName |-> nodeName, namespaceURI |-> namespaceURI,
   attributes |-> attributes, childNodes |-> childNodes]

TextNode(data) == [kind |-> "text", data |-> data]

AttrNode(nodeName, prefix, value) ==
  [nodeName |-> nodeName, prefix |-> prefix, value |-> value]

\* node.textContent: the data of every text node below, in document order.
RECURSIVE textContent(_)
RECURSIVE textContentOfAll(_, _)
textContent(node) ==
  IF node.kind = "text" THEN node.data ELSE textContentOfAll(node.childNodes, 1)

textContentOfAll(nodes, i) ==
  IF i > Len(nodes) THEN ""
  ELSE textContent(nodes[i]) \o textContentOfAll(nodes, i + 1)

(***************************************************************************)
(* Errors.  mustBeTrue and notNil throw a plain Error; the parser wraps    *)
(* what a validator or the ready hook throws as CustomValidationError and  *)
(* what a converter throws as CustomParseError.                            *)
(***************************************************************************)
NoError == [kind |-> Nil, msg |-> Nil, cls |-> Nil, what |-> Nil]

Error(msg, cls, what) == [kind |-> "Error", msg |-> msg, cls |-> cls, what |-> what]

CustomValidationError(msg, cls, what) ==
  [kind |-> "CustomValidationError", msg |-> msg, cls |-> cls, what |-> what]

CustomParseError(msg, cls, what) ==
  [kind |-> "CustomParseError", msg |-> msg, cls |-> cls, what |-> what]

(***************************************************************************)
(* The deserializer's schema merges (parser.ts).  A map is the sequence of *)
(* its entries in insertion order, which is the order Object.values and    *)
(* Object.entries give.                                                    *)
(***************************************************************************)
HasKey(map, key) == \E j \in 1..Len(map) : map[j].key = key

Lookup(map, key) == map[CHOOSE j \in 1..Len(map) : map[j].key = key]

IndexOfKey(map, key) == CHOOSE j \in 1..Len(map) : map[j].key = key

\* The attribute name of a binding at one level: the explicit name, else the
\* level's generator applied to the property, else the property.
resolveAttrName(md, attrDef) ==
  IF attrDef.name = Nil \/ attrDef.name = ""
  THEN IF md.attrNameGen # Nil THEN attrNameGen(md.attrNameGen, attrDef.prop)
       ELSE attrDef.prop
  ELSE attrDef.name

AttrMapEntry(attrDef, attrName) ==
  [key |-> attrName, def |-> [attrDef EXCEPT !.name = attrName], exist |-> FALSE]

\* getAttrMap's inner loop over one level: an entry is added unless the map
\* already holds one under the same attribute name.
RECURSIVE getAttrMapLevel(_, _, _)
getAttrMapLevel(map, md, i) ==
  IF i > Len(md.attrs) THEN map
  ELSE LET attrDef == md.attrs[i]
           attrName == resolveAttrName(md, attrDef)
       IN IF HasKey(map, attrName)
          THEN getAttrMapLevel(map, md, i + 1)
          ELSE getAttrMapLevel(Append(map, AttrMapEntry(attrDef, attrName)), md, i + 1)

RECURSIVE getAttrMapFrom(_, _, _)
getAttrMapFrom(map, chain, l) ==
  IF l > Len(chain) THEN map
  ELSE getAttrMapFrom(getAttrMapLevel(map, getMetadata(chain[l]), 1), chain, l + 1)

getAttrMap(target) == getAttrMapFrom(<<>>, Chain(target), 1)

ChildMapEntry(childDef, tag) == [key |-> tag, def |-> childDef, result |-> <<>>]

\* getChildMap's inner loop over one level; it throws when a child class has
\* no tag, and skips a binding whose tag the map already holds.
RECURSIVE getChildMapLevel(_, _, _)
getChildMapLevel(acc, md, i) ==
  IF ~acc.ok \/ i > Len(md.children) THEN acc
  ELSE LET childDef == md.children[i]
           childMd == getMetadata(childDef.clazz)
       IN IF childMd.tag = Nil
          THEN [ok |-> FALSE, map |-> acc.map]
          ELSE IF HasKey(acc.map, childMd.tag)
          THEN getChildMapLevel(acc, md, i + 1)
          ELSE getChildMapLevel(
                 [ok |-> TRUE, map |-> Append(acc.map, ChildMapEntry(childDef, childMd.tag))],
                 md, i + 1)

RECURSIVE getChildMapFrom(_, _, _)
getChildMapFrom(acc, chain, l) ==
  IF ~acc.ok \/ l > Len(chain) THEN acc
  ELSE getChildMapFrom(getChildMapLevel(acc, getMetadata(chain[l]), 1), chain, l + 1)

getChildMap(target) == getChildMapFrom([ok |-> TRUE, map |-> <<>>], Chain(target), 1)

\* getTextValueDef: the first text binding found from the class upwards.
RECURSIVE getTextValueDefFrom(_, _)
getTextValueDefFrom(chain, l) ==
  IF l > Len(chain) THEN NoText
  ELSE IF getMetadata(chain[l]).text # NoText THEN getMetadata(chain[l]).text
  ELSE getTextValueDefFrom(chain, l + 1)

getTextValueDef(target) == getTextValueDefFrom(Chain(target), 1)

(***************************************************************************)
(* Instances.  The heap is the sequence of the instances created so far;   *)
(* an instance's identity is its index.  Object.create(prototype) gives an *)
(* instance with no own property: every bound property, nsURI and rawDom   *)
(* absent, isSerializing falsy.                                            *)
(***************************************************************************)
create(cls) ==
  [cls |-> cls, props |-> [q \in Props |-> VNil], nsURI |-> Nil,
   rawDom |-> NoNode, isSerializing |-> FALSE]

\* The primitive coercion of parseXMLElement's switch; ok is FALSE when the
\* enum check throws.
\* Variant of the coercion that takes any string for an enum.
coerceAnyEnum(typ, value) ==
  CASE typ.k = "boolean" -> [ok |-> TRUE, v |-> VBool(value = "true")]
    [] typ.k = "number" -> [ok |-> TRUE, v |-> parseFloat(value)]
    [] OTHER -> [ok |-> TRUE, v |-> VStr(value)]

coerce(typ, value) ==
  CASE typ.k = "boolean" -> [ok |-> TRUE, v |-> VBool(value = "true")]
    [] typ.k = "number" -> [ok |-> TRUE, v |-> parseFloat(value)]
    [] typ.k = "string" -> [ok |-> TRUE, v |-> VStr(value)]
    [] OTHER -> [ok |-> value \in typ.vals, v |-> VStr(value)]

\* The validators of a binding, in order: the index of the first that
\* throws, 0 when all pass.
RECURSIVE firstFailingValidator(_, _, _)
firstFailingValidator(validator, v, i) ==
  IF i > Len(validator) THEN 0
  ELSE IF ~validatorPasses(validator[i], v) THEN i
  ELSE firstFailingValidator(validator, v, i + 1)

\* The attribute's local name: nodeName with the first "prefix:" removed.
fieldNameOf(attrNode) ==
  RemoveFirst(attrNode.nodeName,
              (IF attrNode.prefix = Nil THEN "null" ELSE attrNode.prefix) \o ":")

\* The attribute loop of parseXMLElement (lines 35-93).
RECURSIVE attrLoop(_, _, _, _, _)
attrLoop(mdName, attributes, i, attrMap, props) ==
  IF i > Len(attributes) THEN [err |-> NoError, attrMap |-> attrMap, props |-> props]
  ELSE
    LET attrNode == attributes[i]
        fieldName == fieldNameOf(attrNode)
    IN IF attrNode.prefix = "xmlns" \/ attrNode.nodeName = "xmlns"
       THEN attrLoop(mdName, attributes, i + 1, attrMap, props)
       ELSE IF ~HasKey(attrMap, fieldName)
       THEN attrLoop(mdName, attributes, i + 1, attrMap, props)
       ELSE
         LET j == IndexOfKey(attrMap, fieldName)
             entry == attrMap[j]
             c == coerce(entry.def.typ, attrNode.value)
             bad == firstFailingValidator(entry.def.validator, c.v, 1)
             fail(e) == [err |-> e, attrMap |-> attrMap, props |-> props]
         IN IF entry.exist THEN fail(Error("Multiple attribute", mdName, fieldName))
            ELSE IF ~entry.def.defined
            THEN fail(Error("@Attr must be defined", mdName, entry.def.prop))
            ELSE IF ~c.ok
            THEN fail(Error("Unknown enum value", mdName, entry.def.prop))
            ELSE IF bad # 0
            THEN fail(CustomValidationError(entry.def.validator[bad], mdName, entry.def.prop))
            ELSE attrLoop(mdName, attributes, i + 1,
                          [attrMap EXCEPT ![j].exist = TRUE],
                          [props EXCEPT ![entry.def.prop] = c.v])

\* The local tag of a child node: the second part of nodeName.split(':'),
\* or the first when there is no second part.
localTagOf(nodeName) ==
  LET parts == split(nodeName)
  IN IF Len(parts) >= 2 /\ parts[2] # "" THEN parts[2] ELSE parts[1]

\* Variant of the cardinality loop whose upper check is strict
\* (result.length < maxOccur).
RECURSIVE cardinalityLoopStrictMax(_, _, _, _)
cardinalityLoopStrictMax(mdName, childMap, i, props) ==
  IF i > Len(childMap) THEN [err |-> NoError, props |-> props]
  ELSE
    LET entry == childMap[i]
        result == entry.result
        minOccur == entry.def.minOccur
        maxOccur == entry.def.maxOccur
        prop == entry.def.prop
    IN IF ~(Len(result) >= minOccur)
       THEN [err |-> Error("Too few child node", mdName, entry.key), props |-> props]
       ELSE IF maxOccur # Unlimited /\ ~(Len(result) < maxOccur)
       THEN [err |-> Error("Too many child node", mdName, entry.key), props |-> props]
       ELSE IF Len(result) = 1 /\ maxOccur = 1
       THEN cardinalityLoopStrictMax(mdName, childMap, i + 1,
                                     [props EXCEPT ![prop] = VObj(result[1])])
       ELSE IF Len(result) > 0
       THEN cardinalityLoopStrictMax(mdName, childMap, i + 1,
                                     [props EXCEPT ![prop] = VList(result)])
       ELSE cardinalityLoopStrictMax(mdName, childMap, i + 1, props)

\* The cardinality loop (lines 132-149): the first binding whose count is out
\* of range throws; otherwise the property is assigned by count and maxOccur.
RECURSIVE cardinalityLoop(_, _, _, _)
cardinalityLoop(mdName, childMap, i, props) ==
  IF i > Len(childMap) THEN [err |-> NoError, props |-> props]
  ELSE
    LET entry == childMap[i]
        result == entry.result
        minOccur == entry.def.minOccur
        maxOccur == entry.def.maxOccur
        prop == entry.def.prop
    IN IF ~(Len(result) >= minOccur)
       THEN [err |-> Error("Too few child node", mdName, entry.key), props |-> props]
       ELSE IF maxOccur # Unlimited /\ ~(Len(result) <= maxOccur)
       THEN [err |-> Error("Too many child node", mdName, entry.key), props |-> props]
       ELSE IF Len(result) = 1 /\ maxOccur = 1
       THEN cardinalityLoop(mdName, childMap, i + 1, [props EXCEPT ![prop] = VObj(result[1])])
       ELSE IF Len(result) > 0
       THEN cardinalityLoop(mdName, childMap, i + 1, [props EXCEPT ![prop] = VList(result)])
       ELSE cardinalityLoop(mdName, childMap, i + 1, props)

\* Variant of the completeness check that looks at the first entry only.
firstMissingAttrFirstOnly(attrMap, i) ==
  IF i > Len(attrMap) THEN 0
  ELSE IF ~(attrMap[i].exist \/ ~attrMap[i].def.required) THEN i
  ELSE 0

\* The completeness check (lines 151-156): the first required entry, in map
\* order, that no attribute set; 0 when none.
RECURSIVE firstMissingAttr(_, _)
firstMissingAttr(attrMap, i) ==
  IF i > Len(attrMap) THEN 0
  ELSE IF ~(attrMap[i].exist \/ ~attrMap[i].def.required) THEN i
  ELSE firstMissingAttr(attrMap, i + 1)

(***************************************************************************)
(* parseXMLElement(curType, node): the result is either the heap extended  *)
(* by the new instances with the root instance's id, or the error thrown;  *)
(* hooks lists the instances whose ready hook was called, in call order.   *)
(***************************************************************************)
Thrown(heap, err, hooks) ==
  [ok |-> FALSE, err |-> err, heap |-> heap, id |-> 0, hooks |-> hooks]

RECURSIVE parseXMLElement(_, _, _, _)
RECURSIVE childLoop(_, _, _, _, _)

\* The child loop (lines 99-118): text nodes and unknown tags are skipped, a
\* matched node is parsed with the binding's class and pushed on its result.
childLoop(childNodes, i, childMap, heap, hooks) ==
  IF i > Len(childNodes)
  THEN [err |-> NoError, childMap |-> childMap, heap |-> heap, hooks |-> hooks]
  ELSE
    LET chNode == childNodes[i]
    IN IF chNode.kind = "text"
       THEN childLoop(childNodes, i + 1, childMap, heap, hooks)
       ELSE LET name == localTagOf(chNode.nodeName)
            IN IF ~HasKey(childMap, name)
               THEN childLoop(childNodes, i + 1, childMap, heap, hooks)
               ELSE LET j == IndexOfKey(childMap, name)
                        r == parseXMLElement(childMap[j].def.clazz, chNode, heap, hooks)
                    IN IF ~r.ok
                       THEN [err |-> r.err, childMap |-> childMap, heap |-> heap,
                             hooks |-> r.hooks]
                       ELSE childLoop(childNodes, i + 1,
                                      [childMap EXCEPT ![j].result = Append(@, r.id)],
                                      r.heap, r.hooks)

\* Variant of the hook call whose catch clause drops the error.
callReadyDropped(md, instance) == NoError

\* Lines 160-166: md.readyFunc.call(instance); what it throws is wrapped.
callReady(md, instance) ==
  IF md.readyFunc # Nil /\ ~readyFuncPasses(md.readyFunc, instance.props)
  THEN CustomValidationError(md.readyFunc, md.name, Nil)
  ELSE NoError

\* The entry logged when the hook of an instance is called: the instance
\* as the hook finds it.
HookCall(id, instance) == [id |-> id, self |-> instance]

parseXMLElement(curType, node, heap0, hooks0) ==
  LET id == Len(heap0) + 1
      heap1 == Append(heap0, create(curType))
      ready(md, this, heap2, hooks2) ==
        IF md.readyFunc # Nil /\ callReady(md, this) # NoError
        THEN Thrown(heap0, callReady(md, this), Append(hooks2, HookCall(id, this)))
        ELSE [ok |-> TRUE, err |-> NoError,
              heap |-> [heap2 EXCEPT ![id] = this], id |-> id,
              hooks |-> IF md.readyFunc # Nil
                        THEN Append(hooks2, HookCall(id, this)) ELSE hooks2]
      complete(md, a, ch, cd, missing) ==
        IF cd.err # NoError THEN Thrown(heap0, cd.err, ch.hooks)
        ELSE IF missing # 0
        THEN Thrown(heap0, Error("Required attribute not exists", md.name,
                                 a.attrMap[missing].def.name), ch.hooks)
        ELSE ready(md, [heap1[id] EXCEPT !.props = cd.props,
                                         !.nsURI = node.namespaceURI,
                                         !.rawDom = node],
                   ch.heap, ch.hooks)
      texted(md, a, ch, text, textDef) ==
        IF ~(textDef # NoText /\ ~isInvalidStr(VStr(text))) /\ textDef.required
        THEN Thrown(heap0, Error("Required text content not exists", md.name, Nil), ch.hooks)
        ELSE complete(md, a, ch,
                      cardinalityLoop(md.name, ch.childMap, 1,
                                      IF textDef # NoText /\ ~isInvalidStr(VStr(text))
                                      THEN [a.props EXCEPT ![textDef.prop] = VStr(text)]
                                      ELSE a.props),
                      firstMissingAttr(a.attrMap, 1))
      children(md, a, ch) ==
        IF ch.err # NoError THEN Thrown(heap0, ch.err, ch.hooks)
        ELSE texted(md, a, ch, Trim(textContent(node)), getTextValueDef(curType))
      mapped(md, a, cm) ==
        IF ~cm.ok
        THEN Thrown(heap0, Error("Tag must be defined on every node", Nil, Nil), hooks0)
        ELSE children(md, a, childLoop(node.childNodes, 1, cm.map, heap1, hooks0))
      attributed(md, a) ==
        IF a.err # NoError THEN Thrown(heap0, a.err, hooks0)
        ELSE mapped(md, a, getChildMap(curType))
      tagged(md) ==
        IF md.tag = Nil
        THEN Thrown(heap0, Error("Tag must be defined on every node", Nil, Nil), hooks0)
        ELSE attributed(md, attrLoop(md.name, node.attributes, 1, getAttrMap(curType),
                                     heap1[id].props))
  IN tagged(getMetadata(curType))

\* parseXML(rootType, xml), from the document element the DOM parser gives.
parseXML(rootType, documentElement, heap) ==
  parseXMLElement(rootType, documentElement, heap, <<>>)

(***************************************************************************)
(* The serializer's schema merges (base.ts).  A binding is kept unless a   *)
(* more specific level already bound the same property.                    *)
(***************************************************************************)
HasProp(list, prop) == \E j \in 1..Len(list) : list[j].prop = prop

\* One level of getChildList: the level's bindings of properties not seen.
RECURSIVE getChildListLevel(_, _, _, _)
getChildListLevel(levelResult, seen, md, i) ==
  IF i > Len(md.children) THEN levelResult
  ELSE IF HasProp(seen, md.children[i].prop) \/ HasProp(levelResult, md.children[i].prop)
  THEN getChildListLevel(levelResult, seen, md, i + 1)
  ELSE getChildListLevel(Append(levelResult, md.children[i]), seen, md, i + 1)

\* getChildList: result.unshift(...levelResult) puts each ancestor level
\* before the levels below it.
RECURSIVE getChildListFrom(_, _, _)
getChildListFrom(result, chain, l) ==
  IF l > Len(chain) THEN result
  ELSE getChildListFrom(
         getChildListLevel(<<>>, result, getMetadata(chain[l]), 1) \o result,
         chain, l + 1)

getChildList(cls) == getChildListFrom(<<>>, Chain(cls), 1)

\* An entry of getAttrList: the binding with the fragment it comes from.
AttrEntry(attrDef, md) ==
  [prop |-> attrDef.prop, def |-> attrDef, attrNameGen |-> md.attrNameGen]

RECURSIVE getAttrListLevel(_, _, _)
getAttrListLevel(result, md, i) ==
  IF i > Len(md.attrs) THEN result
  ELSE IF HasProp(result, md.attrs[i].prop)
  THEN getAttrListLevel(result, md, i + 1)
  ELSE getAttrListLevel(Append(result, AttrEntry(md.attrs[i], md)), md, i + 1)

RECURSIVE getAttrListFrom(_, _, _)
getAttrListFrom(result, chain, l) ==
  IF l > Len(chain) THEN result
  ELSE getAttrListFrom(getAttrListLevel(result, getMetadata(chain[l]), 1), chain, l + 1)

getAttrList(cls) == getAttrListFrom(<<>>, Chain(cls), 1)

\* The attribute name the serializer writes for an entry (lines 81-87).
attrNameOf(attrEntry) ==
  IF attrEntry.def.name = Nil \/ attrEntry.def.name = ""
  THEN IF attrEntry.attrNameGen # Nil
       THEN attrNameGen(attrEntry.attrNameGen, attrEntry.prop)
       ELSE attrEntry.prop
  ELSE attrEntry.def.name

(***************************************************************************)
(* The documents explored.  For each class: the attribute nodes a document *)
(* may carry (bound names with accepted and rejected values, an unbound    *)
(* name, a prefixed name, a namespace declaration) and the child nodes it  *)
(* may hold (elements of the bound child classes, valid and not, unbound   *)
(* elements with and without text, text nodes).                            *)
(***************************************************************************)
AttrCandidates(cls) ==
  CASE cls = "Foo" ->
         {AttrNode("attr1", Nil, "1"), AttrNode("attr1", Nil, "4"),
          AttrNode("attr1", Nil, "6"), AttrNode("attr1", Nil, "abc"),
          AttrNode("attr2", Nil, "5"), AttrNode("attr2", Nil, "7"),
          AttrNode("a:attr1", "a", "4"), AttrNode("zz", Nil, "1")}
    [] cls = "Bar" ->
         {AttrNode("BARPROP", Nil, "v"), AttrNode("barProp", Nil, "w")}
    [] cls = "Baz" ->
         {AttrNode("attr3", Nil, "foo"), AttrNode("attr3", Nil, "qux")}
    [] cls = "Son" ->
         {AttrNode("x", Nil, "v"), AttrNode("y", Nil, "w"),
          AttrNode("flag", Nil, "true"), AttrNode("zz", Nil, "1"),
          AttrNode("xmlns:myns", "xmlns", "http://foo.bar")}
    [] cls = "Tree" -> {AttrNode("zz", Nil, "1"), AttrNode("flag", Nil, "false")}
    [] cls = "Heir" -> {AttrNode("title", Nil, "v")}
    [] cls \in {"Home", "Villa"} -> {AttrNode("id", Nil, "1"), AttrNode("a:id", "a", "2")}
    [] cls = "Note" -> {AttrNode("id", Nil, "1"), AttrNode("memo", Nil, "m")}
    [] cls = "Pack" -> {AttrNode("id", Nil, "1"), AttrNode("a:id", "a", "0")}
    [] OTHER -> {}

\* The sequences of at most n attribute nodes with distinct node names.
RECURSIVE AttrSeqs(_, _)
AttrSeqs(cands, n) ==
  IF n = 0 THEN {<<>>}
  ELSE LET shorter == AttrSeqs(cands, n - 1)
       IN shorter \cup
          {Append(s, c) : <<s, c>> \in
             {pair \in shorter \X cands :
                /\ Len(pair[1]) = n - 1
                /\ \A j \in 1..Len(pair[1]) : pair[1][j].nodeName # pair[2].nodeName}}

BarValid == ElementNode("Bar", Nil, <<AttrNode("BARPROP", Nil, "v")>>, <<TextNode("t")>>)
BarEmpty == ElementNode("Bar", Nil, <<>>, <<>>)
BazValid == ElementNode("Baz", Nil, <<AttrNode("attr3", Nil, "foo")>>, <<TextNode("b")>>)
BazPrefixed == ElementNode("myns:Baz", "http://foo.bar", <<>>, <<TextNode("b")>>)
BazBadEnum == ElementNode("Baz", Nil, <<AttrNode("attr3", Nil, "qux")>>, <<TextNode("b")>>)
FooValid ==
  ElementNode("Foo", Nil, <<AttrNode("attr1", Nil, "4"), AttrNode("attr2", Nil, "5")>>, <<>>)
FooSumTooBig ==
  ElementNode("Foo", Nil, <<AttrNode("attr1", Nil, "6"), AttrNode("attr2", Nil, "5")>>, <<>>)
FooTooSmall ==
  ElementNode("Foo", Nil, <<AttrNode("attr1", Nil, "1"), AttrNode("attr2", Nil, "5")>>, <<>>)
TreeLeaf == ElementNode("t:Tree", "urn:t", <<>>, <<>>)
TreeLabelled == ElementNode("t:Tree", "urn:t", <<>>, <<TextNode("l")>>)
Unbound == ElementNode("Zed", Nil, <<>>, <<>>)
UnboundWithText == ElementNode("Zed", Nil, <<>>, <<TextNode("junk")>>)

KidCandidates(cls) ==
  CASE cls = "Foo" -> {Unbound, TextNode(" ")}
    [] cls = "Bar" -> {TextNode("t"), TextNode(" t "), TextNode(" "), Unbound, UnboundWithText}
    [] cls = "Baz" -> {TextNode("b"), Unbound, UnboundWithText}
    [] cls = "Son" ->
         {BazValid, BazPrefixed, BazBadEnum, BarValid, BarEmpty, FooValid,
          FooSumTooBig, Unbound, UnboundWithText, TextNode(" ")}
    [] cls = "Tree" ->
         {TreeLeaf, TreeLabelled, BarValid, Unbound, UnboundWithText, TextNode("a")}
    [] cls \in {"Home", "Villa"} -> {ElementNode("Heir", Nil, <<>>, <<>>), Unbound}
    [] cls = "Pack" -> {FooValid, FooSumTooBig, Unbound}
    [] OTHER -> {}

\* The sequences of at most n child nodes.
RECURSIVE KidSeqs(_, _)
KidSeqs(cands, n) ==
  IF n = 0 THEN {<<>>}
  ELSE LET shorter == KidSeqs(cands, n - 1)
       IN shorter \cup
          {Append(pair[1], pair[2]) : pair \in
             {q \in shorter \X cands : Len(q[1]) = n - 1}}

\* The node name and namespace URI of a document element of a class.
QName(cls) ==
  LET md == getMetadata(cls)
      tag == IF md.tag = Nil THEN cls ELSE md.tag
  IN IF md.ns = Nil THEN tag ELSE md.ns \o ":" \o tag

Docs(cls) ==
  {ElementNode(QName(cls), getMetadata(cls).nsURI, attributes, childNodes) :
     attributes \in AttrSeqs(AttrCandidates(cls), MaxAttrs),
     childNodes \in KidSeqs(KidCandidates(cls), MaxKids)}

(***************************************************************************)
(* The serializer (base.ts, XMLElement.toXmlObject).  The namespace map    *)
(* nsDef is a function from prefix to URI, Nil where it has no entry.      *)
(***************************************************************************)
NsKeys == {"myns", "t", "*"}

NoNsDef == [q \in NsKeys |-> Nil]

\* JavaScript truthiness of a string-or-absent value.
Truthy(s) == s # Nil /\ s # ""

\* Variant of the namespace resolution in which the map passed in wins over
\* the instance's own URI.
resolveNsMapFirst(md, o, nsDef) ==
  LET ns == IF Truthy(md.ns) THEN md.ns ELSE "*"
      nsURI == IF Truthy(nsDef[ns]) THEN nsDef[ns] ELSE md.nsURI
  IN IF Truthy(o.nsURI) /\ ~Truthy(nsDef[ns])
     THEN [ns |-> ns, nsURI |-> o.nsURI, nsDef |-> [nsDef EXCEPT ![ns] = o.nsURI]]
     ELSE [ns |-> ns, nsURI |-> nsURI, nsDef |-> nsDef]

\* Lines 60-64: ns = md.ns || '*'; nsURI = nsDef[ns] || md.nsURI; the
\* instance's own URI, when set, wins and is written into the map.
resolveNs(md, o, nsDef) ==
  LET ns == IF Truthy(md.ns) THEN md.ns ELSE "*"
      nsURI == IF Truthy(nsDef[ns]) THEN nsDef[ns] ELSE md.nsURI
  IN IF Truthy(o.nsURI)
     THEN [ns |-> ns, nsURI |-> o.nsURI, nsDef |-> [nsDef EXCEPT ![ns] = o.nsURI]]
     ELSE [ns |-> ns, nsURI |-> nsURI, nsDef |-> nsDef]

\* Lines 66-71: createElementNS(nsURI, ns:tag) or createElement(tag).
createElement(md, r) ==
  IF Truthy(r.nsURI)
  THEN ElementNode(r.ns \o ":" \o md.tag, r.nsURI, <<>>, <<>>)
  ELSE ElementNode(md.tag, Nil, <<>>, <<>>)

\* elem.setAttribute: the attribute of that node name is replaced or added.
setAttribute(elem, attrNode) ==
  IF \E j \in 1..Len(elem.attributes) : elem.attributes[j].nodeName = attrNode.nodeName
  THEN [elem EXCEPT !.attributes =
          [j \in 1..Len(elem.attributes) |->
             IF elem.attributes[j].nodeName = attrNode.nodeName
             THEN attrNode ELSE elem.attributes[j]]]
  ELSE [elem EXCEPT !.attributes = Append(@, attrNode)]

appendChild(elem, node) == [elem EXCEPT !.childNodes = Append(@, node)]

\* Variant of the attribute loop that tests the defined flag only for a
\* property that is not nil.
RECURSIVE writeAttrsGuardPresent(_, _, _, _, _)
writeAttrsGuardPresent(clsName, o, attrList, i, elem) ==
  IF i > Len(attrList) THEN [err |-> NoError, elem |-> elem]
  ELSE
    LET attrEntry == attrList[i]
        fieldValue == o.props[attrEntry.prop]
        attrName == attrNameOf(attrEntry)
        fieldValueStr == toString(fieldValue)
        attrNode ==
          IF Truthy(attrEntry.def.ns)
          THEN AttrNode(attrEntry.def.ns \o ":" \o attrName, attrEntry.def.ns, fieldValueStr)
          ELSE AttrNode(attrName, Nil, fieldValueStr)
    IN IF isNil(fieldValue)
       THEN writeAttrsGuardPresent(clsName, o, attrList, i + 1, elem)
       ELSE IF ~attrEntry.def.defined
       THEN [err |-> Error("@Attr must be defined", clsName, attrEntry.prop), elem |-> elem]
       ELSE writeAttrsGuardPresent(clsName, o, attrList, i + 1, setAttribute(elem, attrNode))

\* Lines 74-115: the attribute loop.  The defined check comes before the
\* isNil test of the property.
RECURSIVE writeAttrs(_, _, _, _, _)
writeAttrs(clsName, o, attrList, i, elem) ==
  IF i > Len(attrList) THEN [err |-> NoError, elem |-> elem]
  ELSE
    LET attrEntry == attrList[i]
        fieldValue == o.props[attrEntry.prop]
        attrName == attrNameOf(attrEntry)
        fieldValueStr == toString(fieldValue)
        attrNode ==
          IF Truthy(attrEntry.def.ns)
          THEN AttrNode(attrEntry.def.ns \o ":" \o attrName, attrEntry.def.ns, fieldValueStr)
          ELSE AttrNode(attrName, Nil, fieldValueStr)
    IN IF ~attrEntry.def.defined
       THEN [err |-> Error("@Attr must be defined", clsName, attrEntry.prop), elem |-> elem]
       ELSE IF isNil(fieldValue)
       THEN writeAttrs(clsName, o, attrList, i + 1, elem)
       ELSE writeAttrs(clsName, o, attrList, i + 1, setAttribute(elem, attrNode))

\* Variant of the raw passthrough test that is never true.
isRawOutputNever(md, o) == FALSE

\* Lines 52-54: the raw passthrough test.
isRawOutput(md, o) == md.rawOutput /\ o.rawDom # NoNode

\* Variant of the child binding's checks without the upper bound on a list.
childObjsOfNoMax(clsName, childDef, rawChildObjs) ==
  LET fail(msg) == [err |-> Error(msg, clsName, childDef.prop), childObjs |-> <<>>]
      pass(ids) == [err |-> NoError, childObjs |-> ids]
  IN IF isNil(rawChildObjs)
     THEN IF childDef.minOccur = 0 THEN pass(<<>>) ELSE fail("missing child object")
     ELSE IF rawChildObjs.k = "list"
     THEN IF ~(childDef.maxOccur # 1)
          THEN fail("maxOccur must not equal to 1 if using array type")
          ELSE IF ~(childDef.minOccur <= Len(rawChildObjs.ids))
          THEN fail("too few child objects")
          ELSE pass(rawChildObjs.ids)
     ELSE IF rawChildObjs.k = "obj"
     THEN IF ~(childDef.maxOccur = 1)
          THEN fail("maxOccur must equal to 1 if not using array type")
          ELSE pass(rawChildObjs.ids)
     ELSE fail("invalid child object type")

\* Lines 117-157 for one child binding: what the property's value asks for.
\* Either an error, or the instances to serialize, in order.
childObjsOf(clsName, childDef, rawChildObjs) ==
  LET fail(msg) == [err |-> Error(msg, clsName, childDef.prop), childObjs |-> <<>>]
      pass(ids) == [err |-> NoError, childObjs |-> ids]
  IN IF isNil(rawChildObjs)
     THEN IF childDef.minOccur = 0 THEN pass(<<>>) ELSE fail("missing child object")
     ELSE IF rawChildObjs.k = "list"
     THEN IF ~(childDef.maxOccur # 1)
          THEN fail("maxOccur must not equal to 1 if using array type")
          ELSE IF ~(childDef.maxOccur = Unlimited
                    \/ childDef.maxOccur >= Len(rawChildObjs.ids))
          THEN fail("too many child objects")
          ELSE IF ~(childDef.minOccur <= Len(rawChildObjs.ids))
          THEN fail("too few child objects")
          ELSE pass(rawChildObjs.ids)
     ELSE IF rawChildObjs.k = "obj"
     THEN IF ~(childDef.maxOccur = 1)
          THEN fail("maxOccur must equal to 1 if not using array type")
          ELSE pass(rawChildObjs.ids)
     ELSE fail("invalid child object type")

\* Lines 167-181: the text step.
writeText(clsName, o, textDef, elem) ==
  IF textDef = NoText THEN [err |-> NoError, elem |-> elem]
  ELSE LET textProp == o.props[textDef.prop]
       IN IF ~isNil(textProp)
          THEN IF textProp.k # "str"
               THEN [err |-> Error("text property must be string", clsName, Nil),
                     elem |-> elem]
               ELSE [err |-> NoError, elem |-> appendChild(elem, TextNode(textProp.s))]
          ELSE IF textDef.required
          THEN [err |-> Error("missing text property", clsName, Nil), elem |-> elem]
          ELSE [err |-> NoError, elem |-> elem]

\* Variant that reads the first fragment along the chain that declares a
\* tag (the getMetadataOnPrototypeChain left commented out in base.ts).
RECURSIVE firstDefined(_, _)
firstDefined(chain, l) ==
  IF l > Len(chain) THEN EmptyMetadata
  ELSE IF getMetadata(chain[l]).defined THEN getMetadata(chain[l])
  ELSE firstDefined(chain, l + 1)

requireMetadataInherited(cls) ==
  [ok |-> firstDefined(Chain(cls), 1).defined, md |-> firstDefined(Chain(cls), 1),
   clsName |-> cls]

\* requireMetadataAndClsName(Object.getPrototypeOf(this)): the fragment of
\* the instance's own class; not ok is the throw of 'missing Tag decorator'.
requireMetadataAndClsName(cls) ==
  LET found(md) == [ok |-> md.defined, md |-> md, clsName |-> cls]
  IN found(getMetadata(cls))

\* Lines 38-115: what entering toXmlObject on instance o with map nsDef does
\* before the child loop, serializing being what line 47 reads from the
\* flag.  kind is "throw" (err; raised before the try when guarded is
\* FALSE), "raw" (the stored node is returned) or "open" (the element with
\* its attributes, and the map the children are given).
enterWith(o, nsDef, serializing) ==
  LET res(r, kind, guarded, err, elem) ==
        [kind |-> kind, guarded |-> guarded, err |-> err, elem |-> elem, nsDef |-> r.nsDef]
      attrs(r, w) ==
        IF w.err # NoError THEN res(r, "throw", TRUE, w.err, NoNode)
        ELSE res(r, "open", TRUE, NoError, w.elem)
      resolved(ok, md, clsName, r) ==
        IF ~ok
        THEN res(r, "throw", FALSE, Error("missing Tag decorator", clsName, Nil), NoNode)
        ELSE IF serializing
        THEN res(r, "throw", FALSE, Error("circular reference detected", clsName, Nil), NoNode)
        ELSE IF isRawOutput(md, o) THEN res(r, "raw", TRUE, NoError, o.rawDom)
        ELSE attrs(r, writeAttrs(clsName, o, getAttrList(o.cls), 1, createElement(md, r)))
      required(rq) == resolved(rq.ok, rq.md, rq.clsName, resolveNs(rq.md, o, nsDef))
  IN required(requireMetadataAndClsName(o.cls))

\* Variant without the test of line 47.
enterUnguarded(o, nsDef) == enterWith(o, nsDef, FALSE)

enter(o, nsDef) == enterWith(o, nsDef, o.isSerializing)

\* A frame of toXmlObject suspended in its child loop: the instance, its
\* map, the element under construction, and the position in the loop (the
\* ci-th child binding, the cj-th instance of its list).
Frame(obj, nsDef, elem) == [obj |-> obj, nsDef |-> nsDef, elem |-> elem, ci |-> 1, cj |-> 1]

\* From a frame, run the child loop up to its next call, throw or return.
RECURSIVE resume(_, _)
resume(o, f) ==
  LET childList == getChildList(o.cls)
      stop(kind, err, child, elem) ==
        [kind |-> kind, err |-> err, child |-> child, frame |-> [f EXCEPT !.elem = elem]]
  IN IF f.ci > Len(childList)
     THEN LET t == writeText(o.cls, o, getTextValueDef(o.cls), f.elem)
          IN IF t.err # NoError THEN stop("throw", t.err, 0, f.elem)
             ELSE stop("return", NoError, 0, t.elem)
     ELSE LET p == childObjsOf(o.cls, childList[f.ci], o.props[childList[f.ci].prop])
          IN IF p.err # NoError THEN stop("throw", p.err, 0, f.elem)
             ELSE IF f.cj > Len(p.childObjs)
             THEN resume(o, [f EXCEPT !.ci = @ + 1, !.cj = 1])
             ELSE stop("call", NoError, p.childObjs[f.cj], f.elem)

(***************************************************************************)
(* The instances a caller builds before serializing.                       *)
(***************************************************************************)
\* new cls() followed by assignments to properties.
With(o, prop, v) == [o EXCEPT !.props[prop] = v]

WithNsURI(o, uri) == [o EXCEPT !.nsURI = uri]

\* Three instances are enough for a cycle through an intermediate instance
\* and for an instance shared by two parents.
ObjIds == {1, 2, 3}

Links == ObjIds \X ObjIds

\* The sequences of at most n links <<parent, child>>.
RECURSIVE LinkSeqs(_)
LinkSeqs(n) ==
  IF n = 0 THEN {<<>>}
  ELSE LET shorter == LinkSeqs(n - 1)
       IN shorter \cup
          {Append(pair[1], pair[2]) : pair \in
             {q \in shorter \X Links : Len(q[1]) = n - 1}}

\* Tree instances whose kids lists hold the links in the order given; an
\* instance with no link has no kids property.
TreeHeap(links) ==
  [i \in 1..Cardinality(ObjIds) |->
     LET mine == SelectSeq(links, LAMBDA l : l[1] = i)
     IN IF mine = <<>> THEN create("Tree")
        ELSE With(create("Tree"), "kids", VList([j \in 1..Len(mine) |-> mine[j][2]]))]

GraphHeaps(n) == {TreeHeap(links) : links \in LinkSeqs(n)}

\* Instances with and without a namespace URI of their own: a chain of three
\* Trees, a Tree with two Tree kids, a Tree with a Bar.
OwnURI(i) == "urn:" \o NatToString(i)

NsShapes ==
  {<<With(create("Tree"), "kids", VList(<<2>>)),
     With(create("Tree"), "kids", VList(<<3>>)), create("Tree")>>,
   <<With(create("Tree"), "kids", VList(<<2, 3>>)), create("Tree"), create("Tree")>>,
   <<With(create("Tree"), "one", VObj(2)), With(create("Bar"), "barText", VStr("t")),
     create("Tree")>>}

NsHeaps ==
  {[i \in 1..Len(shape) |-> IF i \in own THEN WithNsURI(shape[i], OwnURI(i)) ELSE shape[i]] :
     shape \in NsShapes, own \in SUBSET ObjIds}

\* One instance of each class with its bound properties set to values of
\* the declared kind or not, kept or left out, children of the declared
\* shape or not.
FooValues == {VNil, VNum(4), VNum(5), VNaN}

FooHeaps ==
  {<<With(With(create("Foo"), "attr1", a), "attr2", b)>> : a \in FooValues, b \in FooValues}

BarHeaps ==
  {<<With(With(create("Bar"), "barProp", a), "barText", b)>> :
     a \in {VNil, VStr("v")}, b \in {VNil, VStr("t"), VStr(" t"), VStr(""), VNum(4)}}

BazHeaps ==
  {<<With(With(create("Baz"), "enumProp", a), "bazText", VStr("b"))>> :
     a \in {VNil, VStr("foo"), VStr("bar")}}

TreeHeaps ==
  {<<With(With(With(With(create("Tree"), "flag", a), "label", b), "kids", ks), "one", o),
     create("Tree"),
     With(create("Bar"), "barText", VStr("t"))>> :
     a \in {VNil, VBool(TRUE), VBool(FALSE)}, b \in {VNil, VStr("l")},
     ks \in {VNil, VList(<<>>), VList(<<2>>), VList(<<2, 2>>)},
     o \in {VNil, VObj(3)}}

SonHeaps ==
  {<<With(With(With(create("Son"), "p", a), "c", c), "items", its),
     With(create("Baz"), "bazText", VStr("b")),
     With(With(create("Foo"), "attr1", VNum(4)), "attr2", VNum(5))>> :
     a \in {VNil, VStr("v")},
     c \in {VNil, VObj(2), VList(<<2>>), VStr("b")},
     its \in {VNil, VList(<<>>), VList(<<3>>), VList(<<3, 3>>), VObj(3)}}

FatherHeaps == {<<With(create("Father"), "p", VStr("v"))>>}

\* Instances of a class with no tag of its own below a class with one, and
\* of a class with a child binding to it.
HeirHeaps ==
  {<<With(With(create("Heir"), "p", VStr("v")), "c", VObj(2)),
     With(create("Baz"), "bazText", VStr("b"))>>}
    \cup {<<With(create("Home"), "heir", h), With(create("Heir"), "title", VStr("v"))>> :
            h \in {VNil, VObj(2)}}

\* Instances of a class with a property that only @Validators decorates.
NoteHeaps ==
  {<<With(With(create("Note"), "id", a), "memo", b)>> :
     a \in {VNil, VStr("1")}, b \in {VNil, VStr("m")}}

\* A Pack whose parts property holds nothing, lists of zero to three Foos
\* in either order, one Foo, or a number.
PackHeaps ==
  {<<With(create("Pack"), "parts", v),
     With(With(create("Foo"), "attr1", VNum(4)), "attr2", VNum(5)),
     With(With(create("Foo"), "attr1", VNum(5)), "attr2", VNum(4))>> :
     v \in {VNil, VList(<<>>), VList(<<2>>), VList(<<2, 3>>), VList(<<3, 2>>),
            VList(<<2, 3, 2>>), VObj(2), VNum(1)}}

BuiltHeaps == PackHeaps \cup NoteHeaps \cup HeirHeaps \cup FooHeaps \cup BarHeaps \cup BazHeaps \cup TreeHeaps \cup SonHeaps \cup FatherHeaps

\* The maps a caller passes to toXmlObject.
NsDefs ==
  {NoNsDef, [NoNsDef EXCEPT !["t"] = "urn:o"], [NoNsDef EXCEPT !["*"] = "urn:o"]}

\* The documents deserialized before serializing: every document of the raw
\* output class, and one of each class that holds children.
SerDocs(cls) ==
  CASE cls = "Baz" -> Docs("Baz")
    [] cls = "Son" ->
         {ElementNode("myns:Son", "http://foo.bar",
                      <<AttrNode("x", Nil, "v"), AttrNode("y", Nil, "w")>>,
                      <<BazValid, FooValid>>)}
    [] cls = "Tree" ->
         {ElementNode("t:Tree", "urn:t", <<>>, <<TreeLeaf>>)}
    [] cls = "Bar" -> {BarValid}
    [] OTHER -> {}

(***************************************************************************)
(* State.                                                                  *)
(*   heap      the instances                                               *)
(*   rootType  the class given to parseXML                                 *)
(*   doc       the document element given to parseXML                      *)
(*   parsed    what parseXML returned or threw                             *)
(*   edits     how many times the caller changed a deserialized instance   *)
(*   calls     the toXmlObject calls of the callers, each with the frames  *)
(*             it has open                                                 *)
(*   reparsed  what parseXML of the serialized output returned or threw    *)
(***************************************************************************)
VARIABLES heap, rootType, doc, parsed, edits, calls, reparsed

vars == <<heap, rootType, doc, parsed, edits, calls, reparsed>>

MaxEdits == 1
MaxLinks == 3
MaxConcLinks == 2

CallIds == {1, 2}

NotParsed == [st |-> "none", err |-> NoError, id |-> 0, hooks |-> <<>>]

Outcome(r) ==
  [st |-> IF r.ok THEN "returned" ELSE "thrown", err |-> r.err, id |-> r.id,
   hooks |-> r.hooks]

NoPending == [obj |-> 0, nsDef |-> NoNsDef]

\* A caller that has not called yet and will pass the map arg; argNow is
\* that map object as the call leaves it.  inside is the call whose user
\* code (a converter, a name generator, a toString, a property getter) made
\* this call, 0 for a call made from outside any serialization; held is the
\* set of instances whose flag was set when the call was made.
IdleCall(arg) ==
  [st |-> "idle", root |-> 0, arg |-> arg, argNow |-> arg, pending |-> NoPending,
   stack |-> <<>>, out |-> NoNode, err |-> NoError, inside |-> 0, held |-> {}]

Init ==
  /\ heap = <<>>
  /\ rootType \in Classes
  /\ doc \in Docs(rootType)
  /\ parsed = NotParsed
  /\ edits = 0
  /\ calls = [c \in CallIds |-> IdleCall(NoNsDef)]
  /\ reparsed = NotParsed

\* Serialization starts from instances the caller built, or from a document
\* still to be deserialized.
InitSer ==
  /\ parsed = NotParsed
  /\ edits = 0
  /\ reparsed = NotParsed
  /\ \/ /\ rootType = Nil /\ doc = NoNode
        /\ heap \in GraphHeaps(MaxLinks)
        /\ calls = [c \in CallIds |-> IdleCall(NoNsDef)]
     \/ /\ rootType = Nil /\ doc = NoNode
        /\ heap \in NsHeaps \cup BuiltHeaps
        /\ calls \in {[c \in CallIds |-> IdleCall(IF c = 1 THEN arg ELSE NoNsDef)] :
                        arg \in NsDefs}
     \/ /\ heap = <<>>
        /\ rootType \in Classes
        /\ doc \in SerDocs(rootType)
        /\ calls \in {[c \in CallIds |-> IdleCall(IF c = 1 THEN arg ELSE NoNsDef)] :
                        arg \in NsDefs}
     \/ /\ heap \in HeirHeaps
        /\ rootType \in {"Heir", "Home", "Villa"}
        /\ doc \in Docs(rootType)
        /\ calls = [c \in CallIds |-> IdleCall(NoNsDef)]

\* Two callers serialize instances of one graph.
InitConc ==
  /\ parsed = NotParsed
  /\ edits = 0
  /\ reparsed = NotParsed
  /\ rootType = Nil /\ doc = NoNode
  /\ heap \in GraphHeaps(MaxConcLinks)
  /\ calls = [c \in CallIds |-> IdleCall(NoNsDef)]

\* The caller runs parseXML(rootType, xml) to its end.
ParseXML ==
  /\ doc # NoNode
  /\ parsed.st = "none"
  /\ LET r == parseXML(rootType, doc, heap)
     IN /\ parsed' = Outcome(r)
        /\ heap' = r.heap
  /\ UNCHANGED <<rootType, doc, edits, calls, reparsed>>

Idle == \A c \in CallIds : calls[c].st = "idle"

\* The properties a class binds, at any level of its chain.
BoundProps(cls) ==
  {getAttrList(cls)[i].prop : i \in 1..Len(getAttrList(cls))}
    \cup {getChildList(cls)[i].prop : i \in 1..Len(getChildList(cls))}
    \cup (IF getTextValueDef(cls) = NoText THEN {} ELSE {getTextValueDef(cls).prop})

\* The caller assigns a bound property of a deserialized instance.
SetProp ==
  /\ Idle
  /\ edits < MaxEdits
  /\ \E id \in 1..Len(heap) :
       /\ heap[id].rawDom # NoNode
       /\ \E prop \in BoundProps(heap[id].cls), v \in {VNil, VStr("zz")} :
            /\ heap[id].props[prop] # v
            /\ heap' = [heap EXCEPT ![id] = With(@, prop, v)]
  /\ edits' = edits + 1
  /\ UNCHANGED <<rootType, doc, parsed, calls, reparsed>>

\* instance.setNamespaceURI(uri) on a deserialized instance.
setNamespaceURI ==
  /\ Idle
  /\ edits < MaxEdits
  /\ \E id \in 1..Len(heap) :
       /\ heap[id].rawDom # NoNode
       /\ \E uri \in {"urn:i", ""} : heap' = [heap EXCEPT ![id] = WithNsURI(@, uri)]
  /\ edits' = edits + 1
  /\ UNCHANGED <<rootType, doc, parsed, calls, reparsed>>

Flagged == {id \in 1..Len(heap) : heap[id].isSerializing}

\* toXmlObject is synchronous: a call made by user code that runs inside
\* call d suspends d until it has ended.
Suspended(d) ==
  \E c \in CallIds : calls[c].inside = d /\ calls[c].st \in {"running", "throwing"}

\* Caller c calls toXmlObject(arg) on an instance, from outside or from
\* user code running inside another call, which was made on a different
\* instance.  A caller may call again once its call has ended.
Start(c) ==
  /\ calls[c].st \in {"idle", "returned", "thrown"}
  /\ doc # NoNode => parsed.st # "none"
  /\ reparsed.st = "none"
  /\ \A d \in CallIds \ {c} : calls[d].st # "throwing"
  /\ \E root \in 1..Len(heap) :
       /\ \A d \in CallIds \ {c} : calls[d].st = "running" => calls[d].root # root
       /\ calls' = [calls EXCEPT ![c] =
            [IdleCall(calls[c].arg) EXCEPT
               !.st = "running", !.root = root,
               !.pending = [obj |-> root, nsDef |-> calls[c].arg],
               !.inside = IF \E d \in CallIds \ {c} : calls[d].st = "running"
                          THEN CHOOSE d \in CallIds \ {c} : calls[d].st = "running"
                          ELSE 0,
               !.held = Flagged]]
  /\ UNCHANGED <<heap, rootType, doc, parsed, edits, reparsed>>

\* The finally clause that leaves the flag set (lines 184-186 left out).
releaseNot(h, id) == h

\* Lines 184-186: finally { this.isSerializing = false }.
release(h, id) == [h EXCEPT ![id].isSerializing = FALSE]

Top(call) == call.stack[Len(call.stack)]

Pop(call) == [call EXCEPT !.stack = SubSeq(@, 1, Len(@) - 1)]

\* A toXmlObject invocation of the call returns node: to the caller when no
\* frame is open, else to the child loop of the frame below (line 163).
Deliver(call, node) ==
  IF call.stack = <<>>
  THEN [call EXCEPT !.st = "returned", !.out = node, !.pending = NoPending]
  ELSE [call EXCEPT !.pending = NoPending,
                    !.stack[Len(call.stack)] =
                       [@ EXCEPT !.elem = appendChild(@, node), !.cj = @ + 1]]

\* A toXmlObject invocation of the call throws err: to the caller when no
\* frame is open, else into the frame below.
Raise(call, err) ==
  [call EXCEPT !.st = IF call.stack = <<>> THEN "thrown" ELSE "throwing",
               !.err = err, !.pending = NoPending]

\* Variant in which the child loop passes its own map, not a copy: what
\* the child writes is in the parent's map.
ObjectAssignNot(nsDef, written) == written

\* Lines 160-162: the child is called with Object.assign({}, nsDef), so the
\* map of the calling frame stays nsDef whatever the child wrote into its
\* own.
ObjectAssign(nsDef, written) == nsDef

\* The pending toXmlObject invocation of call c runs up to its child loop.
\* Its write into the map it was passed is seen by the caller, whose object
\* the map is, and by the frame below as far as that frame shares it.
Enter(c) ==
  LET call == calls[c]
      id == call.pending.obj
      written(e) ==
        IF ~(e.guarded /\ e.kind # "raw") THEN call
        ELSE IF call.stack = <<>> THEN [call EXCEPT !.argNow = e.nsDef]
        ELSE [call EXCEPT !.stack[Len(call.stack)].nsDef = ObjectAssign(@, e.nsDef)]
      entered(e, seen) ==
        CASE e.kind = "throw" ->
               /\ calls' = [calls EXCEPT ![c] = Raise(seen, e.err)]
               /\ heap' = IF e.guarded THEN release(heap, id) ELSE heap
          [] e.kind = "raw" ->
               /\ calls' = [calls EXCEPT ![c] = Deliver(seen, e.elem)]
               /\ heap' = release(heap, id)
          [] e.kind = "open" ->
               /\ calls' = [calls EXCEPT ![c] =
                    [seen EXCEPT !.pending = NoPending,
                                 !.stack = Append(@, Frame(id, e.nsDef, e.elem))]]
               /\ heap' = [heap EXCEPT ![id].isSerializing = TRUE]
      step(e) == entered(e, written(e))
  IN /\ call.st = "running"
     /\ ~Suspended(c)
     /\ id # 0
     /\ step(enter(heap[id], call.pending.nsDef))
     /\ UNCHANGED <<rootType, doc, parsed, edits, reparsed>>

\* The top frame of call c runs its child loop up to the next child call,
\* or to its end; leaving the frame runs its finally clause.
Resume(c) ==
  LET call == calls[c]
      resumed(f, s) ==
        CASE s.kind = "call" ->
               /\ calls' = [calls EXCEPT ![c] =
                    [call EXCEPT !.stack[Len(call.stack)] = s.frame,
                                 !.pending = [obj |-> s.child, nsDef |-> f.nsDef]]]
               /\ heap' = heap
          [] s.kind = "throw" ->
               /\ calls' = [calls EXCEPT ![c] = Raise(Pop(call), s.err)]
               /\ heap' = release(heap, f.obj)
          [] s.kind = "return" ->
               /\ calls' = [calls EXCEPT ![c] = Deliver(Pop(call), s.frame.elem)]
               /\ heap' = release(heap, f.obj)
      step(f) == resumed(f, resume(heap[f.obj], f))
  IN /\ call.st = "running"
     /\ ~Suspended(c)
     /\ call.pending.obj = 0
     /\ call.stack # <<>>
     /\ step(Top(call))
     /\ UNCHANGED <<rootType, doc, parsed, edits, reparsed>>

\* An exception leaves the top frame of call c through its finally clause.
Unwind(c) ==
  LET call == calls[c]
  IN /\ call.st = "throwing"
     /\ calls' = [calls EXCEPT ![c] = Raise(Pop(call), call.err)]
     /\ heap' = release(heap, Top(call).obj)
     /\ UNCHANGED <<rootType, doc, parsed, edits, reparsed>>

(***************************************************************************)
(* toXml followed by the DOM parser: what the text form keeps of a node    *)
(* tree.  A prefixed element carries the declaration of its prefix, an     *)
(* empty text node leaves nothing, adjacent text nodes become one.         *)
(***************************************************************************)
PrefixOf(nodeName) ==
  IF Len(split(nodeName)) > 1 THEN split(nodeName)[1] ELSE Nil

declare(elem) ==
  LET prefix == PrefixOf(elem.nodeName)
      decl == AttrNode("xmlns:" \o prefix, "xmlns", elem.namespaceURI)
  IN IF prefix = Nil \/ ~Truthy(elem.namespaceURI) THEN elem.attributes
     ELSE IF \E j \in 1..Len(elem.attributes) : elem.attributes[j].nodeName = decl.nodeName
     THEN elem.attributes
     ELSE <<decl>> \o elem.attributes

RECURSIVE joinText(_)
joinText(childNodes) ==
  IF childNodes = <<>> THEN <<>>
  ELSE LET first == Head(childNodes)
           rest == joinText(Tail(childNodes))
       IN IF first.kind = "text" /\ first.data = "" THEN rest
          ELSE IF first.kind = "text" /\ rest # <<>> /\ Head(rest).kind = "text"
          THEN <<TextNode(first.data \o Head(rest).data)>> \o Tail(rest)
          ELSE <<first>> \o rest

RECURSIVE xmlRoundTrip(_)
xmlRoundTrip(node) ==
  IF node.kind # "elem" THEN node
  ELSE ElementNode(node.nodeName, node.namespaceURI, declare(node),
                   joinText([j \in 1..Len(node.childNodes) |->
                               xmlRoundTrip(node.childNodes[j])]))

\* The caller runs parseXML(Class, x.toXml()) on the output of caller 1's
\* call, Class being the class of the instance serialized.
RoundTrip ==
  /\ calls[1].st = "returned"
  /\ reparsed.st = "none"
  /\ LET r == parseXML(heap[calls[1].root].cls, xmlRoundTrip(calls[1].out), heap)
     IN /\ reparsed' = Outcome(r)
        /\ heap' = r.heap
  /\ UNCHANGED <<rootType, doc, parsed, edits, calls>>

Next == ParseXML

Spec == Init /\ [][Next]_vars

NextSer ==
  \/ ParseXML
  \/ SetProp
  \/ setNamespaceURI
  \/ Start(1)
  \/ Enter(1)
  \/ Resume(1)
  \/ Unwind(1)
  \/ RoundTrip

SpecSer == InitSer /\ [][NextSer]_vars

NextConc == \E c \in CallIds : Start(c) \/ Enter(c) \/ Resume(c) \/ Unwind(c)

SpecConc == InitConc /\ [][NextConc]_vars

(***************************************************************************)
(* toXmlObject run to its end by one caller with no other caller active:   *)
(* the same steps, taken without interruption.  active holds the instances *)
(* whose flag is set.                                                      *)
(***************************************************************************)
RECURSIVE toXmlObject(_, _, _, _), serializeChildren(_, _, _)
toXmlObject(h, id, nsDef, active) ==
  LET e == enter([h[id] EXCEPT !.isSerializing = id \in active], nsDef)
  IN CASE e.kind = "throw" -> [ok |-> FALSE, err |-> e.err, node |-> NoNode]
       [] e.kind = "raw" -> [ok |-> TRUE, err |-> NoError, node |-> e.elem]
       [] e.kind = "open" -> serializeChildren(h, Frame(id, e.nsDef, e.elem), active \cup {id})

serializeChildren(h, f, active) ==
  LET s == resume(h[f.obj], f)
      r == toXmlObject(h, s.child, f.nsDef, active)
  IN CASE s.kind = "throw" -> [ok |-> FALSE, err |-> s.err, node |-> NoNode]
       [] s.kind = "return" -> [ok |-> TRUE, err |-> NoError, node |-> s.frame.elem]
       [] s.kind = "call" ->
            IF ~r.ok THEN r
            ELSE serializeChildren(h, [s.frame EXCEPT !.elem = appendChild(@, r.node),
                                               !.cj = @ + 1], active)

\* What a call that has ended gave its caller.
Ended(call) == call.st \in {"returned", "thrown"}

Result(call) ==
  [ok |-> call.st = "returned", err |-> call.err, node |-> call.out]

\* Every call of a lone caller ends as the uninterrupted run does.
StepsMatchRun ==
  (Ended(calls[1]) /\ reparsed.st = "none") =>
     Result(calls[1]) = toXmlObject(heap, calls[1].root, calls[1].arg, {})

(***************************************************************************)
(* Properties of the deserializer, checked under Spec.                     *)
(***************************************************************************)
\* The child element nodes of d whose local tag is tag, in document order.
Occurrences(d, tag) ==
  LET idx == {i \in 1..Len(d.childNodes) :
                /\ d.childNodes[i].kind = "elem"
                /\ localTagOf(d.childNodes[i].nodeName) = tag}
      RECURSIVE pick(_)
      pick(i) ==
        IF i > Len(d.childNodes) THEN <<>>
        ELSE IF i \in idx THEN <<d.childNodes[i]>> \o pick(i + 1)
        ELSE pick(i + 1)
  IN pick(1)

\* Some attribute of d, other than a namespace declaration, has this local name.
HasAttribute(d, name) ==
  \E i \in 1..Len(d.attributes) :
    /\ d.attributes[i].prefix # "xmlns"
    /\ d.attributes[i].nodeName # "xmlns"
    /\ fieldNameOf(d.attributes[i]) = name

\* The attribute, child and text steps of the root node all pass, so that the
\* cardinality step is reached.
ReachesCardinality ==
  LET md == getMetadata(rootType)
      textDef == getTextValueDef(rootType)
      text == Trim(textContent(doc))
  IN /\ md.tag # Nil
     /\ attrLoop(md.name, doc.attributes, 1, getAttrMap(rootType),
                 create(rootType).props).err = NoError
     /\ getChildMap(rootType).ok
     /\ childLoop(doc.childNodes, 1, getChildMap(rootType).map,
                  <<create(rootType)>>, <<>>).err = NoError
     /\ (textDef.required => text # "")

OutOfRange(d, entry) ==
  \/ Len(Occurrences(d, entry.key)) < entry.def.minOccur
  \/ /\ entry.def.maxOccur # Unlimited
     /\ Len(Occurrences(d, entry.key)) > entry.def.maxOccur

\* The first binding of the child map whose count is out of range, 0 if none.
FirstOutOfRange ==
  LET map == getChildMap(rootType).map
      bad == {i \in 1..Len(map) : OutOfRange(doc, map[i])}
  IN IF bad = {} THEN 0 ELSE CHOOSE i \in bad : \A j \in bad : i <= j

\* The first required binding of the attribute map that no attribute of the
\* node names, 0 if none.
FirstAbsentRequired ==
  LET map == getAttrMap(rootType)
      bad == {i \in 1..Len(map) :
                map[i].def.required /\ ~HasAttribute(doc, map[i].key)}
  IN IF bad = {} THEN 0 ELSE CHOOSE i \in bad : \A j \in bad : i <= j

CardinalityMsgs == {"Too few child node", "Too many child node"}

\* C1 (as claimed): after a successful deserialize of a class, a property is
\* assigned only through the binding the class's own effective schema (merged
\* by property, the subclass winning) gives it: an attribute or child element
\* that matches only the ancestor's overridden binding never assigns it.
C1_OverrideLaw ==
  parsed.st = "returned" =>
    LET o == heap[parsed.id]
        attrList == getAttrList(rootType)
        childList == getChildList(rootType)
    IN /\ \A i \in 1..Len(attrList) :
            ~isNil(o.props[attrList[i].prop]) =>
              HasAttribute(doc, attrNameOf(attrList[i]))
       /\ \A i \in 1..Len(childList) :
            ~isNil(o.props[childList[i].prop]) =>
              Occurrences(doc, getMetadata(childList[i].clazz).tag) # <<>>

\* C2: a node that reaches the cardinality step throws "too few"/"too many"
\* for the first child binding whose number of matching child elements is
\* out of [minOccur, maxOccur], and throws neither when every count is in
\* range; a node with a count out of range never yields an instance.
C2_Cardinality ==
  (parsed.st # "none" /\ getMetadata(rootType).tag # Nil /\ getChildMap(rootType).ok) =>
    LET map == getChildMap(rootType).map
        b == FirstOutOfRange
    IN /\ b # 0 => parsed.st = "thrown"
       /\ (ReachesCardinality /\ b # 0) =>
            parsed.err =
              Error(IF Len(Occurrences(doc, map[b].key)) < map[b].def.minOccur
                    THEN "Too few child node" ELSE "Too many child node",
                    getMetadata(rootType).name, map[b].key)
       /\ (ReachesCardinality /\ b = 0) => parsed.err.msg \notin CardinalityMsgs

C2_Witness ==
  /\ rootType = "Son"
  /\ Len(Occurrences(doc, "Baz")) = 2
  /\ parsed.st = "thrown"
  /\ parsed.err = Error("Too many child node", "Son", "Baz")

\* C3 (as claimed): after a successful deserialize, for every child binding
\* the property holds the one child instance when maxOccur is 1 and one
\* element matched, the list of the child instances in document order when
\* at least one matched and maxOccur is not 1, and nothing when none matched
\* and minOccur is 0.
InstanceOf(id, clazz, node) == heap[id].cls = clazz /\ heap[id].rawDom = node

C3_ChildShape ==
  parsed.st = "returned" =>
    LET o == heap[parsed.id]
        childList == getChildList(rootType)
    IN \A i \in 1..Len(childList) :
         LET def == childList[i]
             occ == Occurrences(doc, getMetadata(def.clazz).tag)
             v == o.props[def.prop]
         IN /\ (def.maxOccur = 1 /\ Len(occ) = 1) =>
                 (v.k = "obj" /\ InstanceOf(v.ids[1], def.clazz, occ[1]))
            /\ (def.maxOccur # 1 /\ Len(occ) >= 1) =>
                 /\ v.k = "list"
                 /\ Len(v.ids) = Len(occ)
                 /\ \A j \in 1..Len(occ) : InstanceOf(v.ids[j], def.clazz, occ[j])
            /\ (Len(occ) = 0 /\ def.minOccur = 0) => isNil(v)

\* The node without the attributes and child elements no binding matches,
\* at every level the deserializer visits.
RECURSIVE Strip(_, _)
Strip(cls, d) ==
  LET attrMap == getAttrMap(cls)
      childMap == getChildMap(cls).map
      keepAttr(a) ==
        a.prefix = "xmlns" \/ a.nodeName = "xmlns" \/ HasKey(attrMap, fieldNameOf(a))
      keepKid(n) == n.kind = "text" \/ HasKey(childMap, localTagOf(n.nodeName))
      stripKid(n) ==
        IF n.kind = "text" THEN n
        ELSE Strip(Lookup(childMap, localTagOf(n.nodeName)).def.clazz, n)
      RECURSIVE kids(_)
      kids(i) ==
        IF i > Len(d.childNodes) THEN <<>>
        ELSE IF keepKid(d.childNodes[i])
        THEN <<stripKid(d.childNodes[i])>> \o kids(i + 1)
        ELSE kids(i + 1)
  IN [d EXCEPT !.attributes = SelectSeq(d.attributes, keepAttr),
               !.childNodes = kids(1)]

HasUnknown == Strip(rootType, doc) # doc

\* C9 (as claimed): deserializing a node gives the same outcome (the same
\* error, or instances with the same property values) as deserializing it
\* with its unbound attributes and unbound child elements removed.
C9_UnknownSkipped ==
  parsed.st # "none" =>
    LET r == parseXML(rootType, Strip(rootType, doc), <<>>)
    IN /\ r.ok <=> parsed.st = "returned"
       /\ r.err = parsed.err
       /\ r.ok =>
            /\ Len(r.heap) = Len(heap)
            /\ \A i \in 1..Len(heap) :
                 r.heap[i].cls = heap[i].cls /\ r.heap[i].props = heap[i].props

\* C10: a node that reaches the completeness step throws "required attribute
\* not exists" naming the first required binding of the attribute map (own
\* or inherited) that no attribute of the node names, and does not throw it
\* when none is absent; a node with an absent required attribute never
\* yields an instance; a validator's rejection comes first (README).
C10_Completeness ==
  (parsed.st # "none" /\ getMetadata(rootType).tag # Nil) =>
    LET map == getAttrMap(rootType)
        m == FirstAbsentRequired
        reached == ReachesCardinality /\ FirstOutOfRange = 0
        FooWith(attributes) == ElementNode("Foo", Nil, attributes, <<>>)
    IN /\ m # 0 => parsed.st = "thrown"
       /\ (reached /\ m # 0) =>
            parsed.err = Error("Required attribute not exists",
                               getMetadata(rootType).name, map[m].key)
       /\ (reached /\ m = 0) => parsed.err.msg # "Required attribute not exists"
       /\ (rootType = "Foo" /\ doc = FooTooSmall) =>
            (parsed.st = "thrown" /\ parsed.err.kind = "CustomValidationError")
       /\ (rootType = "Foo" /\ doc = FooWith(<<AttrNode("attr2", Nil, "5")>>)) =>
            parsed.err = Error("Required attribute not exists", "Foo", "attr1")
       /\ (rootType = "Foo" /\ doc = FooValid) => parsed.st = "returned"

C10_Witness ==
  /\ rootType = "Son"
  /\ HasAttribute(doc, "x") /\ ~HasAttribute(doc, "y")
  /\ Len(Occurrences(doc, "Baz")) = 1
  /\ parsed.err = Error("Required attribute not exists", "Son", "y")

(***************************************************************************)
(* Claims about the serializer.                                            *)
(***************************************************************************)
Range(seq) == {seq[j] : j \in 1..Len(seq)}

\* The instances the child loop of instance id calls toXmlObject on.
Kids(h, id) ==
  IF isRawOutput(getMetadata(h[id].cls), h[id]) THEN {}
  ELSE UNION {Range(h[id].props[getChildList(h[id].cls)[j].prop].ids) :
                j \in 1..Len(getChildList(h[id].cls))}

RECURSIVE Closure(_, _)
Closure(h, S) ==
  LET T == S \cup UNION {Kids(h, i) : i \in S}
  IN IF T = S THEN S ELSE Closure(h, T)

\* The instances below instance id, through any number of child properties.
Below(h, id) == Closure(h, Kids(h, id))

OnCycle(h, id) == id \in Below(h, id)

\* Instance id passes every check toXmlObject makes on it other than the
\* flag test.
Sound(h, id) ==
  /\ enterUnguarded(h[id], NoNsDef).kind # "throw"
  /\ \A j \in 1..Len(getChildList(h[id].cls)) :
       childObjsOf(h[id].cls, getChildList(h[id].cls)[j],
                   h[id].props[getChildList(h[id].cls)[j].prop]).err = NoError
  /\ writeText(h[id].cls, h[id], getTextValueDef(h[id].cls),
               enterUnguarded(h[id], NoNsDef).elem).err = NoError

Circular == "circular reference detected"

\* C4: no call has two open frames on one instance, so the recursion is
\* bounded by the number of instances.  When the call of a lone caller has
\* ended, on an instance that is below itself, it has thrown, the error
\* being the circular reference error when every instance it can reach
\* passes its other checks; the circular reference error is raised only when
\* some reachable instance is below itself; and once the call has ended, by
\* returning or by throwing any error, no instance has its flag set.
C4_CircularGuard ==
  LET call == calls[1]
      all == {call.root} \cup Below(heap, call.root)
  IN /\ \A i, j \in 1..Len(call.stack) :
          i # j => call.stack[i].obj # call.stack[j].obj
     /\ Ended(call) =>
          /\ Flagged = {}
          /\ OnCycle(heap, call.root) => call.st = "thrown"
          /\ (OnCycle(heap, call.root) /\ \A i \in all : Sound(heap, i))
               => call.err.msg = Circular
          /\ call.err.msg = Circular => \E i \in all : OnCycle(heap, i)

\* A call on an instance that holds itself through another instance has
\* thrown the circular reference error and left no flag set.
C4_Witness ==
  LET call == calls[1]
  IN /\ call.st = "thrown"
     /\ call.err.msg = Circular
     /\ OnCycle(heap, call.root)
     /\ call.root \notin Kids(heap, call.root)
     /\ Flagged = {}

\* What the call would have given its caller had no other call been open.
Alone(call) == toXmlObject(heap, call.root, call.arg, {})

Visits(call) == {call.root} \cup Below(heap, call.root)

\* C5 as stated: every call that has ended, whatever other call was open
\* when it was made, ended as it would have alone.
C5_SameAsAlone ==
  \A c \in CallIds : Ended(calls[c]) => Result(calls[c]) = Alone(calls[c])

\* C5 amended: a call that has ended and could reach no instance whose flag
\* was set when it was made (an instance another call had entered and not
\* yet left) ended as it would have alone; this covers every call made from
\* outside any serialization.  Any call ended as the uninterrupted run does
\* from the flags it found set.
C5_Nested ==
  \A c \in CallIds :
    Ended(calls[c]) =>
      /\ Visits(calls[c]) \cap calls[c].held = {} => Result(calls[c]) = Alone(calls[c])
      /\ calls[c].inside = 0 => calls[c].held = {}
      /\ Result(calls[c]) =
           toXmlObject(heap, calls[c].root, calls[c].arg, calls[c].held)

\* A call made inside a call on its parent, while flags were set, has
\* returned what it returns alone.
C5_Witness ==
  \E c \in CallIds :
    /\ calls[c].st = "returned"
    /\ calls[c].inside # 0
    /\ calls[c].held # {}
    /\ calls[c].root \in Below(heap, calls[calls[c].inside].root)
    /\ Visits(calls[c]) \cap calls[c].held = {}

\* The key of a class in the namespace map: its prefix, '*' without one.
PrefixKey(cls) == IF Truthy(getMetadata(cls).ns) THEN getMetadata(cls).ns ELSE "*"

\* The URI for key P that the caller or an ancestor supplies to the k-th
\* open frame of a call: the own URI of the nearest enclosing instance of
\* that key which has one, else the caller's entry.
RECURSIVE SuppliedTo(_, _, _)
SuppliedTo(call, k, P) ==
  IF k = 1 THEN call.arg[P]
  ELSE LET above == heap[call.stack[k - 1].obj]
       IN IF PrefixKey(above.cls) = P /\ Truthy(above.nsURI) THEN above.nsURI
          ELSE SuppliedTo(call, k - 1, P)

\* C7: the element of every open frame is under the own URI of its instance
\* when that is set, else under the URI supplied for its prefix by the
\* nearest ancestor that has an own URI for that prefix or, with no such
\* ancestor, by the caller, else under the schema's URI; its name carries the
\* prefix exactly when it has a URI.
C7_NamespacePrecedence ==
  \A k \in 1..Len(calls[1].stack) :
    LET o == heap[calls[1].stack[k].obj]
        md == getMetadata(o.cls)
        P == PrefixKey(o.cls)
        supplied == SuppliedTo(calls[1], k, P)
        uri == IF Truthy(o.nsURI) THEN o.nsURI
               ELSE IF Truthy(supplied) THEN supplied ELSE md.nsURI
        elem == calls[1].stack[k].elem
    IN IF Truthy(uri)
       THEN elem.namespaceURI = uri /\ elem.nodeName = P \o ":" \o md.tag
       ELSE elem.namespaceURI = Nil /\ elem.nodeName = md.tag

\* Three frames deep with a caller's entry for the prefix: the middle
\* instance's own URI differs from the root's, the innermost has none and is
\* under the middle one's.
C7_Witness ==
  LET stack == calls[1].stack
  IN /\ Len(stack) = 3
     /\ Truthy(calls[1].arg["t"])
     /\ Truthy(heap[stack[1].obj].nsURI)
     /\ Truthy(heap[stack[2].obj].nsURI)
     /\ heap[stack[1].obj].nsURI # heap[stack[2].obj].nsURI
     /\ ~Truthy(heap[stack[3].obj].nsURI)
     /\ PrefixKey(heap[stack[3].obj].cls) = "t"
     /\ stack[3].elem.namespaceURI = heap[stack[2].obj].nsURI

\* The element nodes of a tree.
RECURSIVE Elements(_)
Elements(node) ==
  IF node.kind # "elem" THEN {}
  ELSE {node} \cup UNION {Elements(node.childNodes[j]) : j \in 1..Len(node.childNodes)}

\* C8: a call on an instance of a raw output class that holds a source node
\* (only the deserializer stores one) has, once ended, returned that node, an
\* element of the document deserialized and the document element itself for
\* the root instance, whatever the caller assigned to it since and whatever
\* map the caller passed.
C8_RawPassthrough ==
  LET call == calls[1]
      o == heap[call.root]
  IN (Ended(call) /\ getMetadata(o.cls).rawOutput /\ o.rawDom # NoNode) =>
       /\ call.st = "returned"
       /\ call.out = o.rawDom
       /\ call.out \in Elements(doc)
       /\ call.root = parsed.id => call.out = doc

\* A deserialized Baz whose required text the caller has removed, serialized
\* with a map that has an entry: the source node is returned although the
\* text check would throw.
C8_Witness ==
  LET call == calls[1]
  IN /\ call.st = "returned"
     /\ heap[call.root].cls = "Baz"
     /\ heap[call.root].rawDom # NoNode
     /\ edits = 1
     /\ isNil(heap[call.root].props["bazText"])
     /\ ~Sound(heap, call.root)
     /\ call.arg # NoNsDef
     /\ call.out = doc

\* The bound values of instances a and b are equal: the attribute and text
\* properties, and the child properties with their shape, instance by
\* instance.
RECURSIVE SameValue(_, _, _)
SameValue(h, a, b) ==
  LET attrProps == {getAttrList(h[a].cls)[j].prop : j \in 1..Len(getAttrList(h[a].cls))}
      textProps == IF getTextValueDef(h[a].cls) = NoText THEN {}
                   ELSE {getTextValueDef(h[a].cls).prop}
      childProps == {getChildList(h[a].cls)[j].prop : j \in 1..Len(getChildList(h[a].cls))}
  IN /\ h[a].cls = h[b].cls
     /\ \A p \in attrProps \cup textProps : h[a].props[p] = h[b].props[p]
     /\ \A p \in childProps :
          /\ h[a].props[p].k = h[b].props[p].k
          /\ Len(h[a].props[p].ids) = Len(h[b].props[p].ids)
          /\ \A j \in 1..Len(h[a].props[p].ids) :
               j <= Len(h[b].props[p].ids) =>
                 SameValue(h, h[a].props[p].ids[j], h[b].props[p].ids[j])

\* A value of the declared primitive type.
OfType(typ, v) ==
  CASE typ = TString -> v.k = "str"
    [] typ = TBoolean -> v.k = "bool"
    [] typ = TNumber -> v.k = "num"
    [] OTHER -> v.k = "str" /\ v.s \in typ.vals

\* Instance id is built from its schema: no source node; every attribute
\* property of its declared type and accepted by its validators, or unset
\* when its binding is not required;
\* the ready hook accepts it; its text unset or a non-empty string with no
\* space at either end; no child list empty.
Built(h, id) ==
  /\ h[id].rawDom = NoNode
  /\ \A j \in 1..Len(getAttrList(h[id].cls)) :
       LET e == getAttrList(h[id].cls)[j]
           v == h[id].props[e.prop]
       IN (isNil(v) /\ ~e.def.required)
          \/ (OfType(e.def.typ, v)
              /\ \A q \in 1..Len(e.def.validator) :
                   validatorPasses(e.def.validator[q], v))
  /\ readyFuncPasses(getMetadata(h[id].cls).readyFunc, h[id].props)
  /\ getTextValueDef(h[id].cls) # NoText =>
       LET t == h[id].props[getTextValueDef(h[id].cls).prop]
       IN isNil(t) \/ (t.k = "str" /\ t.s # "" /\ Trim(t.s) = t.s)
  /\ \A j \in 1..Len(getChildList(h[id].cls)) :
       h[id].props[getChildList(h[id].cls)[j].prop] # VList(<<>>)

\* C6: when the output of a call on an instance built from its schema, as
\* every instance below it, has been parsed back as the instance's class,
\* parseXML has returned an instance with the same bound values.
C6_RoundTrip ==
  (reparsed.st # "none" /\ \A i \in Visits(calls[1]) : Built(heap, i)) =>
     /\ reparsed.st = "returned"
     /\ SameValue(heap, calls[1].root, reparsed.id)

(***************************************************************************)
(* Claims about errors, frames and order.                                  *)
(***************************************************************************)
MissingTag == "Tag must be defined on every node"

MissingTagDecorator == "missing Tag decorator"

\* Some child binding along the chain of cls references a class whose own
\* fragment has no tag.
BindsTagless(cls) ==
  \E l \in 1..Len(Chain(cls)) :
    \E j \in 1..Len(getMetadata(Chain(cls)[l]).children) :
      getMetadata(getMetadata(Chain(cls)[l]).children[j].clazz).tag = Nil

\* C11: parseXML on a class whose own fragment has no tag has thrown the
\* missing tag error, whatever its ancestors declare; parseXML on a class
\* with a child binding to such a class has thrown, with the missing tag
\* error whenever the attribute loop before it passes; in both cases no
\* instance is returned and none has been created.  A toXmlObject call on an instance of a class whose
\* own fragment has no tag has thrown 'missing Tag decorator' and returned
\* no node.
C11_Bindability ==
  /\ (parsed.st # "none" /\ getMetadata(rootType).tag = Nil) =>
       /\ parsed.st = "thrown"
       /\ parsed.err.msg = MissingTag
       /\ parsed.id = 0
       /\ reparsed.st = "none" => \A i \in 1..Len(heap) : heap[i].rawDom = NoNode
  /\ (parsed.st # "none" /\ getMetadata(rootType).tag # Nil /\ BindsTagless(rootType)) =>
       /\ parsed.st = "thrown"
       /\ attrLoop(getMetadata(rootType).name, doc.attributes, 1, getAttrMap(rootType),
                   create(rootType).props).err = NoError
            => parsed.err.msg = MissingTag
       /\ parsed.id = 0
       /\ reparsed.st = "none" => \A i \in 1..Len(heap) : heap[i].rawDom = NoNode
  /\ \A c \in CallIds :
       (Ended(calls[c]) /\ ~getMetadata(heap[calls[c].root].cls).defined) =>
          /\ calls[c].st = "thrown"
          /\ calls[c].err.msg = MissingTagDecorator
          /\ calls[c].out = NoNode

\* parseXML on a class with no tag of its own below a class with one has
\* thrown, and so has toXmlObject on an instance of such a class.
C11_Witness ==
  /\ parsed.st = "thrown"
  /\ parsed.err.msg = MissingTag
  /\ getMetadata(rootType).tag = Nil
  /\ getMetadata(getPrototypeOf(rootType)).tag # Nil
  /\ calls[1].st = "thrown"
  /\ calls[1].err.msg = MissingTagDecorator
  /\ ~getMetadata(heap[calls[1].root].cls).defined
  /\ getMetadata(getPrototypeOf(heap[calls[1].root].cls)).defined

\* The first attribute of document d that the attribute loop of cls stops
\* at is a matched enum attribute whose value is not a value of the enum:
\* the attributes before it pass, and it is neither a namespace declaration
\* nor unknown nor a duplicate.
StopsAtUnknownEnum(cls, d) ==
  \E i \in 1..Len(d.attributes) :
    LET before == attrLoop(getMetadata(cls).name, SubSeq(d.attributes, 1, i - 1), 1,
                           getAttrMap(cls), create(cls).props)
        attrNode == d.attributes[i]
        fieldName == fieldNameOf(attrNode)
    IN /\ before.err = NoError
       /\ attrNode.prefix # "xmlns" /\ attrNode.nodeName # "xmlns"
       /\ HasKey(before.attrMap, fieldName)
       /\ LET entry == Lookup(before.attrMap, fieldName)
          IN /\ ~entry.exist
             /\ entry.def.defined
             /\ entry.def.converter = Nil
             /\ entry.def.typ.k = "enum"
             /\ attrNode.value \notin entry.def.typ.vals

\* C12 as stated: parseXML on a document whose attribute loop stops at an
\* enum attribute with an undeclared value has thrown an error of the kind
\* that a rejecting validator or hook raises, and returned no instance.
C12_EnumValidationError ==
  (parsed.st # "none" /\ getMetadata(rootType).tag # Nil
     /\ StopsAtUnknownEnum(rootType, doc)) =>
       /\ parsed.st = "thrown"
       /\ parsed.err.kind = CustomValidationError(Nil, Nil, Nil).kind
       /\ parsed.id = 0 /\ heap = <<>>

\* C12 amended: parseXML on such a document has thrown the plain Error of
\* mustBeTrue, 'Unknown enum value' naming the property, not wrapped as a
\* validation or parse error, and no instance exists.
C12_EnumPlainError ==
  (parsed.st # "none" /\ getMetadata(rootType).tag # Nil
     /\ StopsAtUnknownEnum(rootType, doc)) =>
       /\ parsed.st = "thrown"
       /\ parsed.err.kind = Error(Nil, Nil, Nil).kind
       /\ parsed.err.kind # CustomValidationError(Nil, Nil, Nil).kind
       /\ parsed.err.kind # CustomParseError(Nil, Nil, Nil).kind
       /\ parsed.err.msg = "Unknown enum value"
       /\ parsed.err.what = "enumProp"
       /\ parsed.id = 0 /\ heap = <<>>

\* parseXML of a Baz document with attr3="qux" has thrown.
C12_Witness ==
  /\ parsed.st = "thrown"
  /\ rootType = "Baz"
  /\ StopsAtUnknownEnum(rootType, doc)
  /\ parsed.err.msg = "Unknown enum value"

MustBeDefined == "@Attr must be defined"

\* The positions of the attribute list of cls whose entry no @Attr defined.
UndefinedAt(cls) ==
  {i \in 1..Len(getAttrList(cls)) : ~getAttrList(cls)[i].def.defined}

\* The name of the attribute node the serializer writes for an entry.
WrittenName(attrEntry) ==
  IF Truthy(attrEntry.def.ns)
  THEN attrEntry.def.ns \o ":" \o attrNameOf(attrEntry)
  ELSE attrNameOf(attrEntry)

\* C13 as stated: a call that has thrown 'must be defined' has met an
\* instance whose property of the binding named is not nil.
C13_GuardOnlyPresent ==
  LET call == calls[1]
  IN (call.st = "thrown" /\ call.err.msg = MustBeDefined /\ reparsed.st = "none") =>
       \E i \in {call.root} \cup Below(heap, call.root) :
         /\ heap[i].cls = call.err.cls
         /\ ~isNil(heap[i].props[call.err.what])

\* C13 amended: a call on an instance of a decorated class that is not
\* passed through raw has, once ended, thrown 'must be defined' naming the
\* first binding of the attribute list whose defined flag is false, whether
\* the property holds a value or not; with no such binding it has not thrown
\* that error, and an element it returned has an attribute for exactly the
\* bindings whose property is not nil.
C13_GuardAlways ==
  LET call == calls[1]
      o == heap[call.root]
      md == getMetadata(o.cls)
      list == getAttrList(o.cls)
      first == CHOOSE i \in UndefinedAt(o.cls) : \A j \in UndefinedAt(o.cls) : i <= j
  IN (Ended(call) /\ reparsed.st = "none" /\ md.defined /\ ~isRawOutput(md, o)) =>
       /\ UndefinedAt(o.cls) # {} =>
            /\ call.st = "thrown"
            /\ call.err.msg = MustBeDefined
            /\ call.err.what = list[first].prop
            /\ call.out = NoNode
       /\ UndefinedAt(o.cls) = {} =>
            /\ call.err.msg # MustBeDefined
            /\ call.st = "returned" =>
                 \A i \in 1..Len(list) :
                   isNil(o.props[list[i].prop]) <=>
                     ~\E a \in 1..Len(call.out.attributes) :
                        call.out.attributes[a].nodeName = WrittenName(list[i])

\* A call on a Note whose memo is nil has thrown 'must be defined' for memo.
C13_Witness ==
  LET call == calls[1]
  IN /\ call.st = "thrown"
     /\ call.err.msg = MustBeDefined
     /\ call.err.what = "memo"
     /\ isNil(heap[call.root].props["memo"])
     /\ ~isNil(heap[call.root].props["id"])

\* The rule for one child binding and the value of its property: Nil when
\* the value is allowed, else the error.
ShapeVerdict(childDef, v) ==
  CASE isNil(v) ->
         IF childDef.minOccur = 0 THEN Nil ELSE "missing child object"
    [] v.k = "list" ->
         IF childDef.maxOccur = 1
         THEN "maxOccur must not equal to 1 if using array type"
         ELSE IF childDef.maxOccur # Unlimited /\ Len(v.ids) > childDef.maxOccur
         THEN "too many child objects"
         ELSE IF Len(v.ids) < childDef.minOccur
         THEN "too few child objects"
         ELSE Nil
    [] v.k = "obj" ->
         IF childDef.maxOccur # 1
         THEN "maxOccur must equal to 1 if not using array type"
         ELSE Nil
    [] OTHER -> "invalid child object type"

\* The instances held by the first n child bindings of instance o, binding
\* by binding and in list order.
RECURSIVE HeldBy(_, _)
HeldBy(o, n) ==
  IF n = 0 THEN <<>>
  ELSE HeldBy(o, n - 1) \o o.props[getChildList(o.cls)[n].prop].ids

\* C14: a call whose instance reaches the child loop has, once ended,
\* thrown the error of the first child binding whose value breaks the shape
\* rule (absent with a minimum other than 0; a list with maximum 1, longer
\* than a numeric maximum or shorter than the minimum; one object with a
\* maximum other than 1; anything else), provided the instances of the
\* bindings before it serialize; and an element it returned, every binding
\* passing, has the node of each held instance as its children, one per
\* list element, binding by binding and in list order, before its text.
C14_ChildShapeRule ==
  LET call == calls[1]
      o == heap[call.root]
      e == enter(o, call.arg)
      list == getChildList(o.cls)
      verdict(j) == ShapeVerdict(list[j], o.props[list[j].prop])
      node(id) == toXmlObject(heap, id, e.nsDef, {call.root})
      held == HeldBy(o, Len(list))
  IN (Ended(call) /\ reparsed.st = "none" /\ e.kind = "open") =>
       /\ \A j \in 1..Len(list) :
            ( /\ verdict(j) # Nil
              /\ \A b \in 1..(j - 1) : verdict(b) = Nil
              /\ \A k \in 1..Len(HeldBy(o, j - 1)) : node(HeldBy(o, j - 1)[k]).ok ) =>
                /\ call.st = "thrown"
                /\ call.err.kind = "Error"
                /\ call.err.msg = verdict(j)
                /\ call.err.what = list[j].prop
                /\ call.out = NoNode
       /\ ( /\ call.st = "returned"
            /\ \A j \in 1..Len(list) : verdict(j) = Nil ) =>
              /\ Len(call.out.childNodes) >= Len(held)
              /\ \A k \in 1..Len(held) : call.out.childNodes[k] = node(held[k]).node
              /\ \A k \in (Len(held) + 1)..Len(call.out.childNodes) :
                   /\ call.out.childNodes[k].kind = "text"
                   /\ k = Len(held) + 1
       /\ call.st = "returned" => \A j \in 1..Len(list) : verdict(j) = Nil

\* A call on a Pack that holds two Bars in the order 3, 2 has returned an
\* element with their two nodes.
C14_Witness ==
  LET call == calls[1]
  IN /\ call.st = "returned"
     /\ heap[call.root].cls = "Pack"
     /\ heap[call.root].props["parts"].ids = <<3, 2>>
     /\ Len(call.out.childNodes) = 2
     /\ call.out.childNodes[1] # call.out.childNodes[2]

\* The namespace map of the k-th open frame of a call as the path to it
\* makes it: the caller's map, written into by the root instance and then
\* by each instance on the path down to the k-th, and by no other.
RECURSIVE PathNsDef(_, _)
PathNsDef(call, k) ==
  LET o == heap[call.stack[k].obj]
      passed == IF k = 1 THEN call.arg ELSE PathNsDef(call, k - 1)
  IN resolveNs(getMetadata(o.cls), o, passed).nsDef

\* The URI an instance is emitted under when it is passed the map nsDef.
EmittedURI(o, nsDef) ==
  LET r == resolveNs(getMetadata(o.cls), o, nsDef)
  IN IF Truthy(r.nsURI) THEN r.nsURI ELSE Nil

\* C15: the map of every open frame, and of the instance about to be
\* entered, is the one its path makes, whatever own URIs the instances of
\* subtrees serialized before it have; the element of every open frame is
\* under the URI that map gives, and the child nodes already appended to it
\* leave its own URI as it was.
C15_SiblingIsolation ==
  LET call == calls[1]
      n == Len(call.stack)
  IN /\ \A k \in 1..n :
          /\ call.stack[k].nsDef = PathNsDef(call, k)
          /\ call.stack[k].elem.namespaceURI =
               EmittedURI(heap[call.stack[k].obj],
                          IF k = 1 THEN call.arg ELSE PathNsDef(call, k - 1))
     /\ (call.st = "running" /\ call.pending.obj # 0) =>
          call.pending.nsDef = IF n = 0 THEN call.arg ELSE PathNsDef(call, n)
     /\ (call.st = "returned" /\ reparsed.st = "none"
           /\ ~isRawOutput(getMetadata(heap[call.root].cls), heap[call.root])) =>
          call.out.namespaceURI = EmittedURI(heap[call.root], call.arg)

\* The second of two Tree kids is open: the first has an own URI and its
\* node is appended under it, the second has none and is under the root's
\* own URI.
C15_Witness ==
  LET call == calls[1]
  IN /\ Len(call.stack) = 2
     /\ call.stack[1].cj = 2
     /\ Len(call.stack[1].elem.childNodes) = 1
     /\ Truthy(heap[call.root].nsURI)
     /\ call.stack[1].elem.childNodes[1].namespaceURI = OwnURI(2)
     /\ heap[call.stack[2].obj].nsURI = Nil
     /\ call.stack[2].elem.namespaceURI = heap[call.root].nsURI
     /\ call.stack[2].elem.namespaceURI # OwnURI(2)

\* The child elements of node n that a child binding of cls matches, with
\* the class they are parsed as, in document order.
RECURSIVE MatchedFrom(_, _, _)
MatchedFrom(cls, n, i) ==
  LET map == getChildMap(cls).map
      chNode == n.childNodes[i]
  IN IF i > Len(n.childNodes) THEN <<>>
     ELSE IF chNode.kind = "elem" /\ HasKey(map, localTagOf(chNode.nodeName))
     THEN <<[clazz |-> Lookup(map, localTagOf(chNode.nodeName)).def.clazz, node |-> chNode]>>
            \o MatchedFrom(cls, n, i + 1)
     ELSE MatchedFrom(cls, n, i + 1)

\* Every step of parseXMLElement(cls, n) before the hook succeeds: the tags
\* are declared, the attribute loop ends, every matched child is parsed to
\* its end, a required text is there, every count is in range and every
\* required attribute is present.
StepsSucceed(cls, n) ==
  LET md == getMetadata(cls)
      a == attrLoop(md.name, n.attributes, 1, getAttrMap(cls), create(cls).props)
      map == getChildMap(cls).map
      matched == MatchedFrom(cls, n, 1)
      textDef == getTextValueDef(cls)
  IN /\ md.tag # Nil
     /\ getChildMap(cls).ok
     /\ a.err = NoError
     /\ \A k \in 1..Len(matched) :
          parseXMLElement(matched[k].clazz, matched[k].node, <<>>, <<>>).ok
     /\ (textDef # NoText /\ textDef.required) => ~isInvalidStr(VStr(Trim(textContent(n))))
     /\ \A j \in 1..Len(map) :
          /\ Len(Occurrences(n, map[j].key)) >= map[j].def.minOccur
          /\ map[j].def.maxOccur # Unlimited =>
               Len(Occurrences(n, map[j].key)) <= map[j].def.maxOccur
     /\ \A j \in 1..Len(a.attrMap) : a.attrMap[j].exist \/ ~a.attrMap[j].def.required

\* The matched elements below node n, at any depth, whose class has a hook.
RECURSIVE HookedBelow(_, _)
HookedBelow(cls, n) ==
  LET matched == MatchedFrom(cls, n, 1)
      RECURSIVE sum(_)
      sum(k) ==
        IF k > Len(matched) THEN 0
        ELSE (IF getMetadata(matched[k].clazz).readyFunc # Nil THEN 1 ELSE 0)
               + HookedBelow(matched[k].clazz, matched[k].node) + sum(k + 1)
  IN sum(1)

HookPassed(entry) ==
  readyFuncPasses(getMetadata(entry.self.cls).readyFunc, entry.self.props)

\* C16: in the log of hook calls of one parseXML call no instance appears
\* twice; each call is on an instance of a class with a hook that holds its
\* source node, whose node passes every step before the hook, and comes
\* after the calls for all matched elements below that node that have a
\* hook; nothing is called after a hook that threw; a hook that threw left
\* the whole call thrown with a CustomValidationError and no instance; and
\* a call that returned has called the hook of every instance that has one.
C16_HookOrdering ==
  LET log == parsed.hooks
  IN parsed.st # "none" =>
       /\ \A i, j \in 1..Len(log) : log[i].id = log[j].id => i = j
       /\ \A i \in 1..Len(log) :
            LET o == log[i].self
            IN /\ getMetadata(o.cls).readyFunc # Nil
               /\ o.rawDom # NoNode
               /\ StepsSucceed(o.cls, o.rawDom)
               /\ Cardinality({k \in 1..(i - 1) : log[k].id > log[i].id})
                    = HookedBelow(o.cls, o.rawDom)
               /\ i < Len(log) => HookPassed(log[i])
       /\ (log # <<>> /\ ~HookPassed(log[Len(log)])) =>
            /\ parsed.st = "thrown"
            /\ parsed.err = CustomValidationError(
                              getMetadata(log[Len(log)].self.cls).readyFunc,
                              getMetadata(log[Len(log)].self.cls).name, Nil)
            /\ parsed.id = 0
            /\ heap = <<>>
       /\ parsed.st = "returned" =>
            \A id \in 1..Len(heap) :
              getMetadata(heap[id].cls).readyFunc # Nil =>
                \E i \in 1..Len(log) : log[i].id = id /\ log[i].self = heap[id]
       /\ (parsed.st = "thrown" /\ StepsSucceed(rootType, doc)) =>
            /\ log # <<>>
            /\ log[Len(log)].id = 1
            /\ ~HookPassed(log[Len(log)])

\* A Pack with two valid Foos and id 0: the hooks of the two Foos were
\* called, then the hook of the Pack, which threw.
C16_Witness ==
  /\ rootType = "Pack"
  /\ parsed.st = "thrown"
  /\ Len(parsed.hooks) = 3
  /\ parsed.hooks[1].id = 2 /\ parsed.hooks[2].id = 3 /\ parsed.hooks[3].id = 1
  /\ parsed.err.kind = "CustomValidationError"
  /\ parsed.err.msg = "checkId"

\* The instances of the open frames of a call: the current serialization
\* path.
StackObjs(call) == {call.stack[k].obj : k \in 1..Len(call.stack)}

\* While the call of a lone caller is under way the instances whose flag is
\* set are those on the current path, so an instance left earlier has its
\* flag clear when it is entered again; a call that has ended on instances
\* none of which is below itself has not thrown the circular reference
\* error, however often one of them is held, and has returned when each
\* passes its other checks.
C17_FlagsArePath ==
  LET call == calls[1]
      all == {call.root} \cup Below(heap, call.root)
  IN /\ call.st \in {"running", "throwing"} =>
          Flagged = StackObjs(call)
     /\ (call.st = "running" /\ call.pending.obj # 0
           /\ call.pending.obj \notin StackObjs(call)) =>
          ~heap[call.pending.obj].isSerializing
     /\ (Ended(call) /\ reparsed.st = "none" /\ \A i \in all : ~OnCycle(heap, i)) =>
          /\ call.err.msg # Circular
          /\ (\A i \in all : Sound(heap, i)) => call.st = "returned"

\* A step that raises the circular reference error enters an instance that
\* is on the current path.
C17_RaisedOnPath ==
  (/\ calls[1].st = "running"
   /\ calls[1].pending.obj # 0
   /\ calls'[1].st \in {"throwing", "thrown"}
   /\ calls'[1].err.msg = Circular) =>
     calls[1].pending.obj \in StackObjs(calls[1])

\* C17: an instance held twice in a graph with no cycle (twice in one list,
\* or by two parents) is not reported as a cycle, because the flags set are
\* always exactly those of the current path; the circular reference error
\* is raised only by entering an instance that is on the current path.
C17_SharedNotCircular == []C17_FlagsArePath /\ [][C17_RaisedOnPath]_vars

\* A call has returned on a Tree that holds instances 2 and 3 while
\* instance 2 holds instance 3 as well.
C17_Witness ==
  LET call == calls[1]
  IN /\ call.st = "returned"
     /\ call.root = 1
     /\ heap[1].props["kids"].ids = <<2, 3>>
     /\ heap[2].props["kids"].ids = <<3>>
     /\ Len(call.out.childNodes) = 2
     /\ Len(call.out.childNodes[1].childNodes) = 1

=============================================================================
